---- MODULE Spec2Model ----
(***************************************************************************)
(* Fairness-constrained traffic-signal control of the AddisAbabaSUMO       *)
(* repository: the targeted environment (AddisTargetedEnvironment and its   *)
(* TargetedTrafficLightManager), the observation encoder, the dimension     *)
(* adapter of the bridge, and the fairness histogram / fairness score of    *)
(* the multi-agent variant.                                                 *)
(*                                                                          *)
(* Phase indices are 0-based as in the source; TLA+ sequences are 1-based,  *)
(* so phase i of a program p is p.phases[i + 1].                            *)
(* The simulator (SUMO, reached through traci) is an external collaborator: *)
(* its phase after an advance is any phase of the program, and it accepts   *)
(* every setPhase with a valid index.                                       *)
(***************************************************************************)
EXTENDS Integers, Sequences, FiniteSets, TLC

VARIABLES
    sumoProgram,              \* simulator: TLS id -> phase program (links, phases)
    sumoStart,                \* simulator: TLS id -> phase shown after the warm-up steps
    laneOrder,                \* TLS id -> order list(set(...)) gives its lanes in this process
    sumoPhase,                \* simulator: TLS id -> index of the phase it shows
    loaded,                   \* traci connection started (reset was called)
    delta_time,               \* AddisTargetedEnvironment.delta_time
    control_mode,             \* AddisTargetedEnvironment.control_mode
    target_tls_ids,           \* AddisTargetedEnvironment.target_tls_ids
    simulation_step,          \* AddisTargetedEnvironment.simulation_step
    traffic_lights,           \* dict in insertion order: sequence of managers
    emergency_switches_total, \* AddisTargetedEnvironment.emergency_switches_total
    last,                     \* what the last step() did, per TLS id
    hist,                     \* what the episode did so far, per TLS id
    fo,                       \* FairnessObservationFunction object
    pure                      \* inputs and results of the pure functions

vars == <<sumoProgram, sumoStart, laneOrder, sumoPhase, loaded, delta_time, control_mode, target_tls_ids,
          simulation_step,
          traffic_lights, emergency_switches_total, last, hist, fo, pure>>

envVars == <<sumoProgram, sumoStart, laneOrder, sumoPhase, loaded, delta_time, control_mode, target_tls_ids,
             simulation_step,
             traffic_lights, emergency_switches_total, last, hist>>

-----------------------------------------------------------------------------
(* Bounds of the model *)

\* decision ticks of a modelled episode: num_seconds = MaxTicks * delta_time
MaxTicks == 3
\* simulated seconds of the episodes of the starvation scenario
ScenarioSeconds == 80

-----------------------------------------------------------------------------
(* Program constants *)

MinGreenTime == 10
MaxRedTime == 90
EmergencyCooldown == 20
YellowTime == 4
InitialLastEmergencySwitch == -90
\* 0.8 as the fraction StarvationNum / StarvationDen
StarvationNum == 8
StarvationDen == 10
LaneCap == 12
GreenFallbackCap == 6
NoPhase == -1

Min2(a, b) == IF a <= b THEN a ELSE b
Max2(a, b) == IF a >= b THEN a ELSE b

-----------------------------------------------------------------------------
(* The simulator's networks: a program is the list of controlled links     *)
(* (the incoming lane of each signal index) and the list of phase states.  *)

ProgAB == [links  |-> <<"L1", "L2">>,
           phases |-> << <<"G", "r">>, <<"r", "G">> >>]

ProgYellow == [links  |-> <<"L1", "L2">>,
               phases |-> << <<"G", "r">>, <<"y", "r">>, <<"r", "g">>, <<"r", "y">> >>]

ProgThree == [links  |-> <<"L1", "L2", "L3">>,
              phases |-> << <<"G", "r", "r">>, <<"r", "G", "r">>, <<"r", "r", "G">> >>]

ProgUnserved == [links  |-> <<"L1", "L2", "L3">>,
                 phases |-> << <<"G", "r", "r">>, <<"r", "G", "r">> >>]

Networks ==
    { [t \in {"t1"} |-> ProgAB],
      [t \in {"t1"} |-> ProgYellow],
      [t \in {"t1"} |-> ProgThree],
      [t \in {"t1"} |-> ProgUnserved] }

DeltaTimes == {5, 15}
ControlModes == {"rl"}

LanesOf(prog) == {prog.links[i] : i \in DOMAIN prog.links}

-----------------------------------------------------------------------------
(* TargetedTrafficLightManager *)

GreenChar(c) == c \in {"G", "g"}

IsGreenState(state) == \E i \in DOMAIN state : GreenChar(state[i])

\* _identify_green_phases: indices of the phases holding a 'G' or 'g'; when
\* there is none, the first min(len(phases), 6) indices.
identify_green_phases(phases) ==
    LET idx == [i \in 1..Len(phases) |-> i - 1]
        green == SelectSeq(idx, LAMBDA i : IsGreenState(phases[i + 1]))
    IN  IF green # <<>> THEN green
        ELSE [i \in 1..Min2(Len(phases), GreenFallbackCap) |-> i - 1]

\* zip(state, controlled_links): the lanes whose signal is green in `state`
GreenLanesOfState(state, links) ==
    {links[i] : i \in {j \in 1..Min2(Len(state), Len(links)) : GreenChar(state[j])}}

\* _get_current_green_lanes: read from the simulator's current signal state
get_current_green_lanes(prog, phase) == GreenLanesOfState(prog.phases[phase + 1], prog.links)

\* _find_best_phase_for_lane: the first green phase (list order) serving `lane`
find_best_phase_for_lane(m, links, lane) ==
    LET serving == {k \in 1..Len(m.green_phases) :
                        lane \in GreenLanesOfState(m.phases[m.green_phases[k] + 1], links)}
    IN  IF serving = {} THEN NoPhase
        ELSE m.green_phases[CHOOSE k \in serving : \A j \in serving : k <= j]

\* (mutant) the dwell compared with yellow_time instead of min_green_time
can_switch_phase_yellow(m, current_time) ==
    current_time - m.phase_start_time >= YellowTime

\* can_switch_phase
can_switch_phase(m, current_time) ==
    current_time - m.phase_start_time >= m.min_green_time

\* the scan of needs_emergency_switch over controlled_lanes: the first lane of
\* maximal starvation among the non-green lanes whose starvation exceeds
\* 0.8 * max_red_time; "" when there is none
RECURSIVE ScanStarved(_, _, _, _, _, _)
ScanStarved(m, green, current_time, i, max_starvation, starved_lane) ==
    IF i > Len(m.controlled_lanes) THEN starved_lane
    ELSE LET lane == m.controlled_lanes[i]
             starvation_time == current_time - m.lane_last_green[lane]
         IN  IF /\ lane \notin green
                /\ starvation_time * StarvationDen > m.max_red_time * StarvationNum
                /\ starvation_time > max_starvation
             THEN ScanStarved(m, green, current_time, i + 1, starvation_time, lane)
             ELSE ScanStarved(m, green, current_time, i + 1, max_starvation, starved_lane)

\* (mutant) the cooldown comparison inverted
needs_emergency_switch_inverted(m, prog, phase, current_time) ==
    IF current_time - m.last_emergency_switch > m.emergency_cooldown
    THEN [flag |-> FALSE, phase |-> NoPhase, tls |-> m]
    ELSE LET green == get_current_green_lanes(prog, phase)
             starved_lane == ScanStarved(m, green, current_time, 1, 0, "")
             best_phase == IF starved_lane = "" THEN NoPhase
                           ELSE find_best_phase_for_lane(m, prog.links, starved_lane)
         IN  IF starved_lane # "" /\ best_phase # NoPhase /\ best_phase # m.current_phase
             THEN [flag |-> TRUE, phase |-> best_phase,
                   tls |-> [m EXCEPT !.last_emergency_switch = current_time,
                                     !.emergency_switches = @ + 1]]
             ELSE [flag |-> FALSE, phase |-> NoPhase, tls |-> m]

\* (mutant) an emergency recorded without stamping last_emergency_switch
needs_emergency_switch_no_stamp(m, prog, phase, current_time) ==
    IF current_time - m.last_emergency_switch < m.emergency_cooldown
    THEN [flag |-> FALSE, phase |-> NoPhase, tls |-> m]
    ELSE LET green == get_current_green_lanes(prog, phase)
             starved_lane == ScanStarved(m, green, current_time, 1, 0, "")
             best_phase == IF starved_lane = "" THEN NoPhase
                           ELSE find_best_phase_for_lane(m, prog.links, starved_lane)
         IN  IF starved_lane # "" /\ best_phase # NoPhase /\ best_phase # m.current_phase
             THEN [flag |-> TRUE, phase |-> best_phase,
                   tls |-> [m EXCEPT !.emergency_switches = @ + 1]]
             ELSE [flag |-> FALSE, phase |-> NoPhase, tls |-> m]

\* (mutant) the emergency stamped as soon as a starved lane is found
needs_emergency_switch_eager(m, prog, phase, current_time) ==
    IF current_time - m.last_emergency_switch < m.emergency_cooldown
    THEN [flag |-> FALSE, phase |-> NoPhase, tls |-> m]
    ELSE LET green == get_current_green_lanes(prog, phase)
             starved_lane == ScanStarved(m, green, current_time, 1, 0, "")
             best_phase == IF starved_lane = "" THEN NoPhase
                           ELSE find_best_phase_for_lane(m, prog.links, starved_lane)
             stamped == [m EXCEPT !.last_emergency_switch = current_time,
                                  !.emergency_switches = @ + 1]
         IN  IF starved_lane # "" /\ best_phase # NoPhase /\ best_phase # m.current_phase
             THEN [flag |-> TRUE, phase |-> best_phase, tls |-> stamped]
             ELSE [flag |-> FALSE, phase |-> NoPhase,
                   tls |-> IF starved_lane # "" THEN stamped ELSE m]

\* needs_emergency_switch: the flag, the phase, and the manager after the
\* call (the call records last_emergency_switch and emergency_switches)
needs_emergency_switch(m, prog, phase, current_time) ==
    IF current_time - m.last_emergency_switch < m.emergency_cooldown
    THEN [flag |-> FALSE, phase |-> NoPhase, tls |-> m]
    ELSE LET green == get_current_green_lanes(prog, phase)
             starved_lane == ScanStarved(m, green, current_time, 1, 0, "")
             best_phase == IF starved_lane = "" THEN NoPhase
                           ELSE find_best_phase_for_lane(m, prog.links, starved_lane)
         IN  IF starved_lane # "" /\ best_phase # NoPhase /\ best_phase # m.current_phase
             THEN [flag |-> TRUE, phase |-> best_phase,
                   tls |-> [m EXCEPT !.last_emergency_switch = current_time,
                                     !.emergency_switches = @ + 1]]
             ELSE [flag |-> FALSE, phase |-> NoPhase, tls |-> m]

\* update_fairness_metrics
update_fairness_metrics(m, prog, phase, current_time) ==
    LET green == get_current_green_lanes(prog, phase)
    IN  [m EXCEPT !.lane_last_green =
            [l \in DOMAIN @ |->
                IF l \in green /\ \E i \in DOMAIN m.controlled_lanes : m.controlled_lanes[i] = l
                THEN current_time ELSE @[l]]]

\* the orders list(set(...)) can give the controlled lanes
LaneOrders(S) ==
    {s \in [1..Cardinality(S) -> S] : \A i, j \in 1..Cardinality(S) : i # j => s[i] # s[j]}

\* TargetedTrafficLightManager.__init__ with the arguments of
\* _detect_and_initialize_target_tls; `lanes` is the list _get_controlled_lanes returned
NewManager(tls_id, prog, lanes) ==
    [tls_id |-> tls_id,
     phases |-> prog.phases,
     min_green_time |-> MinGreenTime,
     max_red_time |-> MaxRedTime,
     current_phase |-> 0,
     time_since_last_switch |-> 0,
     phase_start_time |-> 0,
     phase_switches |-> 0,
     lane_last_green |-> [l \in LanesOf(prog) |-> -MaxRedTime],
     emergency_switches |-> 0,
     emergency_cooldown |-> EmergencyCooldown,
     last_emergency_switch |-> InitialLastEmergencySwitch,
     controlled_lanes |-> lanes,
     green_phases |-> identify_green_phases(prog.phases)]

\* _get_controlled_lanes: list(lanes)[:12] of the set of incoming lanes
ControlledLaneLists(prog) ==
    {SubSeq(s, 1, Min2(Len(s), LaneCap)) : s \in LaneOrders(LanesOf(prog))}

-----------------------------------------------------------------------------
(* Lane telemetry and get_lane_metrics.  Fractions are pairs <<num, den>>   *)
(* with den > 0.                                                            *)

RLe(a, b) == a[1] * b[2] <= b[1] * a[2]
RMin(a, b) == IF RLe(a, b) THEN a ELSE b

VehicleCap == 30
QueueCap == 20
WaitingCap == 180
DensityCap == 50
FlowCap == 300
VehicleLength == 5

ZeroMetrics ==
    [vehicle_count |-> 0, queue_length |-> 0, waiting_time |-> 0, mean_speed |-> 0,
     occupancy |-> <<0, 1>>, density |-> <<0, 1>>, flow_rate |-> 0]

\* one lane of get_lane_metrics without the except branch: the metrics are
\* built from what the queries before the failing one answered
LaneMetrics_partial(tm) ==
    LET vehicle_count == Min2(tm.vehicles, VehicleCap)
        lane_length == Max2(tm.length, 1)
    IN  [vehicle_count |-> vehicle_count,
         queue_length |-> Min2(tm.halting, QueueCap),
         waiting_time |-> Min2(tm.waiting, WaitingCap),
         mean_speed |-> tm.speed,
         occupancy |-> RMin(<<vehicle_count * VehicleLength, lane_length>>, <<1, 1>>),
         density |-> RMin(<<vehicle_count * 1000, lane_length>>, <<DensityCap, 1>>),
         flow_rate |-> IF tm.speed > 0 THEN Min2(vehicle_count * tm.speed, FlowCap)
                       ELSE 0]

\* one lane of get_lane_metrics: `tm` is what the simulator answers for the
\* lane (ok = FALSE: a query raised)
LaneMetrics(tm) ==
    IF ~tm.ok THEN ZeroMetrics
    ELSE LET vehicle_count == Min2(tm.vehicles, VehicleCap)
             lane_length == Max2(tm.length, 1)
         IN  [vehicle_count |-> vehicle_count,
              queue_length |-> Min2(tm.halting, QueueCap),
              waiting_time |-> Min2(tm.waiting, WaitingCap),
              mean_speed |-> tm.speed,
              occupancy |-> RMin(<<vehicle_count * VehicleLength, lane_length>>, <<1, 1>>),
              density |-> RMin(<<vehicle_count * 1000, lane_length>>, <<DensityCap, 1>>),
              flow_rate |-> IF tm.speed > 0 THEN Min2(vehicle_count * tm.speed, FlowCap)
                            ELSE 0]

\* get_lane_metrics: a dict keyed by the controlled lanes, in their order
get_lane_metrics(m, telemetry) ==
    [l \in {m.controlled_lanes[i] : i \in DOMAIN m.controlled_lanes} |->
        LaneMetrics(telemetry[l])]

-----------------------------------------------------------------------------
(* AddisTargetedEnvironment: phase selection and switching *)

\* scores are kept as integers, ScoreScale times the source's float
ScoreScale == 600
FairnessBonusCap == 5
NegInf == -1

\* _evaluate_phase_score, over zip(phase_state, controlled_links) from index i
RECURSIVE evaluate_phase_score(_, _, _, _, _, _)
evaluate_phase_score(m, links, phase_idx, lane_metrics, now, i) ==
    LET state == m.phases[phase_idx + 1]
    IN  IF i > Min2(Len(state), Len(links)) THEN 0
        ELSE LET lane == links[i]
                 here ==
                    IF GreenChar(state[i]) /\ lane \in DOMAIN lane_metrics
                    THEN LET mt == lane_metrics[lane]
                             demand_score == mt.queue_length * 2 * ScoreScale
                                             + mt.waiting_time * (ScoreScale \div 100)
                                             + mt.vehicle_count * (ScoreScale \div 2)
                             time_since_green == now - m.lane_last_green[lane]
                             fairness_bonus == Min2(time_since_green * (ScoreScale \div 60),
                                                    FairnessBonusCap * ScoreScale)
                         IN  demand_score + fairness_bonus
                    ELSE 0
             IN  here + evaluate_phase_score(m, links, phase_idx, lane_metrics, now, i + 1)

\* the loop of _get_next_optimal_phase over green_phases from position k
RECURSIVE ScanBestPhase(_, _, _, _, _, _, _)
ScanBestPhase(m, links, lane_metrics, now, k, best_score, best_phase) ==
    IF k > Len(m.green_phases) THEN best_phase
    ELSE LET phase_idx == m.green_phases[k]
         IN  IF phase_idx = m.current_phase
             THEN ScanBestPhase(m, links, lane_metrics, now, k + 1, best_score, best_phase)
             ELSE LET score == evaluate_phase_score(m, links, phase_idx, lane_metrics, now, 1)
                  IN  IF score > best_score
                      THEN ScanBestPhase(m, links, lane_metrics, now, k + 1, score, phase_idx)
                      ELSE ScanBestPhase(m, links, lane_metrics, now, k + 1,
                                         best_score, best_phase)

\* _get_next_optimal_phase
get_next_optimal_phase(m, links, telemetry, now) ==
    LET lane_metrics == get_lane_metrics(m, telemetry)
        start == IF m.green_phases # <<>>
                 THEN (m.current_phase + 1) % Len(m.green_phases)
                 ELSE m.current_phase
    IN  ScanBestPhase(m, links, lane_metrics, now, 1, NegInf, start)

\* _switch_to_phase: the manager after the switch; its current_phase is the
\* index handed to setPhase
\* _switch_to_phase taking the target as a position counted from 1
switch_to_phase_one_based(m, target_phase, now) ==
    [m EXCEPT !.current_phase = target_phase + 1,
              !.phase_start_time = now,
              !.time_since_last_switch = 0,
              !.phase_switches = @ + 1]

switch_to_phase(m, target_phase, now) ==
    LET target == IF target_phase >= Len(m.phases) THEN target_phase % Len(m.phases)
                  ELSE target_phase
    IN  [m EXCEPT !.current_phase = target,
                  !.phase_start_time = now,
                  !.time_since_last_switch = 0,
                  !.phase_switches = @ + 1]

\* (mutant) the dwell test hoisted into the emergency condition, so that a
\* flagged emergency that may not switch falls through to the policy branch
execute_action_branch_fallthrough(needs_emergency, action, can_switch) ==
    IF needs_emergency /\ can_switch THEN "emergency"
    ELSE IF action = 1 THEN "policy" ELSE "none"

\* the branch _execute_action takes
execute_action_branch(needs_emergency, action, can_switch) ==
    IF needs_emergency
    THEN IF can_switch THEN "emergency" ELSE "none"
    ELSE IF action = 1 /\ can_switch THEN "policy" ELSE "none"

-----------------------------------------------------------------------------
(* One step() as seen by one intersection.  The records `last` and `hist`  *)
(* observe the run: they are written by the step and read by no operation.  *)

IdSet(seq) == {seq[i] : i \in DOMAIN seq}
Keys(tl) == {tl[k].tls_id : k \in DOMAIN tl}
PhaseIndices(prog) == 0..(Len(prog.phases) - 1)

\* the lanes of m that are red in the simulator's phase, starved beyond
\* 0.8 * max_red_time and served by some green phase
StarvedServedLanes(m, prog, phase, now) ==
    {l \in IdSet(m.controlled_lanes) :
        /\ l \notin get_current_green_lanes(prog, phase)
        /\ (now - m.lane_last_green[l]) * StarvationDen > m.max_red_time * StarvationNum
        /\ find_best_phase_for_lane(m, prog.links, l) # NoPhase}

\* the phases an override for a starved lane may go to, once the cooldown
\* has elapsed; empty when no override is due
DuePhases(m, prog, phase, now) ==
    IF now - m.last_emergency_switch >= m.emergency_cooldown
    THEN {p \in PhaseIndices(prog) :
            /\ IsGreenState(prog.phases[p + 1])
            /\ \E l \in StarvedServedLanes(m, prog, phase, now) :
                    l \in GreenLanesOfState(prog.phases[p + 1], prog.links)}
    ELSE {}

NoLast ==
    [action |-> 0,
     preTime |-> 0, preFlag |-> FALSE, preFlagPhase |-> NoPhase, preDue |-> {},
     preKind |-> "none", preFrom |-> 0, preTo |-> 0, prePrev |-> 0,
     postTime |-> 0, postFlag |-> FALSE, postDue |-> {}, postKind |-> "none", postTo |-> 0,
     switches |-> 0]

NewHist(startPhase) ==
    [lastSwitch |-> 0, quiet |-> TRUE, startPhase |-> startPhase, override |-> <<>>,
     applied |-> 0, emergencies |-> 0, records |-> <<>>]

\* _execute_action for one intersection at time `now`; the simulator shows
\* phase sp.  has = FALSE: zip() gave the intersection no action.
PrePass(m, prog, sp, has, action, telemetry, now) ==
    IF ~has THEN [tls |-> m, sumo |-> sp, kind |-> "none", flag |-> FALSE, phase |-> NoPhase]
    ELSE LET ne == needs_emergency_switch(m, prog, sp, now)
             m1 == ne.tls
             branch == execute_action_branch(ne.flag /\ ne.phase # NoPhase, action,
                                             can_switch_phase(m1, now))
             next_phase == get_next_optimal_phase(m1, prog.links, telemetry, now)
         IN  CASE branch = "emergency" ->
                    LET m2 == switch_to_phase(m1, ne.phase, now)
                    IN  [tls |-> m2, sumo |-> m2.current_phase, kind |-> "emergency",
                         flag |-> ne.flag, phase |-> ne.phase]
               [] branch = "policy" /\ next_phase # m1.current_phase ->
                    LET m2 == switch_to_phase(m1, next_phase, now)
                    IN  [tls |-> m2, sumo |-> m2.current_phase, kind |-> "policy",
                         flag |-> ne.flag, phase |-> ne.phase]
               [] OTHER ->
                    [tls |-> m1, sumo |-> sp, kind |-> "none",
                     flag |-> ne.flag, phase |-> ne.phase]

\* (mutant) _update_all_metrics leaving time_since_last_switch alone
update_all_metrics_no_clock(m, prog, sp, now, dt) ==
    LET synced == [m EXCEPT !.current_phase = sp]
    IN  update_fairness_metrics(synced, prog, sp, now)

\* _update_all_metrics for one intersection, after the advance: the
\* simulator shows phase sp at time `now`
update_all_metrics(m, prog, sp, now, dt) ==
    LET synced == [m EXCEPT !.current_phase = sp]
        fair == update_fairness_metrics(synced, prog, sp, now)
    IN  [fair EXCEPT !.time_since_last_switch = @ + dt]

\* (mutant) the starvation pass run whatever the control mode
PostPass_any_mode(m, prog, sp, mode, now) ==
    LET ne == needs_emergency_switch(m, prog, sp, now)
    IN  IF ne.flag /\ ne.phase # NoPhase
        THEN LET m2 == switch_to_phase(ne.tls, ne.phase, now)
             IN  [tls |-> m2, sumo |-> m2.current_phase, kind |-> "emergency",
                  flag |-> TRUE, ran |-> TRUE]
        ELSE [tls |-> ne.tls, sumo |-> sp, kind |-> "none", flag |-> FALSE, ran |-> TRUE]

\* _handle_emergency_switches for one intersection (control_mode 'rl')
PostPass(m, prog, sp, mode, now) ==
    IF mode # "rl" THEN [tls |-> m, sumo |-> sp, kind |-> "none", flag |-> FALSE, ran |-> FALSE]
    ELSE LET ne == needs_emergency_switch(m, prog, sp, now)
         IN  IF ne.flag /\ ne.phase # NoPhase
             THEN LET m2 == switch_to_phase(ne.tls, ne.phase, now)
                  IN  [tls |-> m2, sumo |-> m2.current_phase, kind |-> "emergency",
                       flag |-> TRUE, ran |-> TRUE]
             ELSE [tls |-> ne.tls, sumo |-> sp, kind |-> "none", flag |-> FALSE, ran |-> TRUE]

\* what step() did to one intersection: m, h and sp before the step, pre /
\* upd / post the results of the three passes
LastOf(m, h, prog, sp, has, action, pre, upd, post, sp2, now, dt) ==
    [action |-> IF has THEN action ELSE 0,
     preTime |-> now,
     preFlag |-> pre.flag, preFlagPhase |-> pre.phase,
     preDue |-> IF has THEN DuePhases(m, prog, sp, now) ELSE {},
     preKind |-> pre.kind,
     preFrom |-> m.current_phase, preTo |-> pre.tls.current_phase,
     prePrev |-> h.lastSwitch,
     postTime |-> now + dt,
     postFlag |-> post.flag,
     postDue |-> IF post.ran THEN DuePhases(upd, prog, sp2, now + dt) ELSE {},
     postKind |-> post.kind, postTo |-> post.tls.current_phase,
     switches |-> post.tls.phase_switches - m.phase_switches]

\* the times of the last two emergencies recorded, after one more at time t
PushRecord(records, t) ==
    IF records = <<>> THEN <<t>> ELSE <<records[Len(records)], t>>

HistOf(h, has, action, pre, post, sp2, now, dt) ==
    LET quiet == h.quiet /\ sp2 = pre.sumo /\ has /\ action = 0
        afterPre == IF pre.flag THEN PushRecord(h.records, now) ELSE h.records
    IN  [h EXCEPT
           !.records = IF post.flag THEN PushRecord(afterPre, now + dt) ELSE afterPre,
           !.lastSwitch = IF post.kind # "none" THEN now + dt
                          ELSE IF pre.kind # "none" THEN now ELSE @,
           !.quiet = quiet,
           !.applied = @ + (IF pre.kind # "none" THEN 1 ELSE 0)
                         + (IF post.kind # "none" THEN 1 ELSE 0),
           !.emergencies = @ + (IF pre.kind = "emergency" THEN 1 ELSE 0)
                             + (IF post.kind = "emergency" THEN 1 ELSE 0),
           !.override =
                IF @ # <<>> \/ ~h.quiet THEN @
                ELSE IF pre.kind = "emergency" /\ has /\ action = 0
                     THEN <<now, pre.tls.current_phase>>
                ELSE IF post.kind = "emergency" /\ quiet
                     THEN <<now + dt, post.tls.current_phase>>
                ELSE @]

-----------------------------------------------------------------------------
(* AddisTargetedEnvironment: construction, reset() and step() *)

IdleLane == [ok |-> TRUE, vehicles |-> 0, halting |-> 0, waiting |-> 0, speed |-> 0,
             length |-> 100]
BusyLane == [ok |-> TRUE, vehicles |-> 40, halting |-> 25, waiting |-> 200, speed |-> 10,
             length |-> 100]

\* what the simulator answers for the lanes of a network at one tick: every
\* lane idle, or one of them saturated
TelemetryOf(busy) == [l \in {"L1", "L2", "L3"} |-> IF l = busy THEN BusyLane ELSE IdleLane]
TelemetrySamples(net) ==
    {TelemetryOf(b) : b \in {""} \cup UNION {LanesOf(net[t]) : t \in DOMAIN net}}

\* the action vectors a caller may hand to step(): Keep (0) / Switch (1),
\* shorter than, as long as, or longer than the list of intersections
ActionVectors(n) == UNION {[1..k -> {0, 1}] : k \in 0..n}

IndexOfKey(tl, id) == CHOOSE k \in DOMAIN tl : tl[k].tls_id = id

\* self.traffic_lights[target_id] = manager: in place for a known key,
\* appended for a new one
DictSet(tl, id, m) ==
    IF id \in Keys(tl) THEN [tl EXCEPT ![IndexOfKey(tl, id)] = m] ELSE Append(tl, m)

\* _detect_and_initialize_target_tls from target i on: `failed` are the ids
\* whose program query raises, lanes[id] the list _get_controlled_lanes gives
RECURSIVE detect_and_initialize_target_tls(_, _, _, _, _, _)
detect_and_initialize_target_tls(targets, tl, i, programs, failed, lanes) ==
    IF i > Len(targets) THEN tl
    ELSE LET target_id == targets[i]
         IN  IF target_id \in DOMAIN programs /\ target_id \notin failed
             THEN detect_and_initialize_target_tls(targets,
                      DictSet(tl, target_id,
                              NewManager(target_id, programs[target_id], lanes[target_id])),
                      i + 1, programs, failed, lanes)
             ELSE detect_and_initialize_target_tls(targets, tl, i + 1, programs, failed, lanes)

\* the loop of reset() over every manager of the dict
ResetTimers(m) ==
    [m EXCEPT !.phase_start_time = 0,
              !.time_since_last_switch = 0,
              !.last_emergency_switch = InitialLastEmergencySwitch,
              !.emergency_switches = 0]

\* the functions choosing one element of F[t] for every t
Choices(F) == {f \in [DOMAIN F -> UNION {F[t] : t \in DOMAIN F}] :
                    \A t \in DOMAIN F : f[t] \in F[t]}

\* the state after __init__; the network, the phase each program shows after
\* the warm-up steps of a reset, and the iteration order of the lane sets
\* are fixed for the run
EnvInitOf(targets, networks, modes) ==
    /\ sumoProgram \in networks
    /\ sumoStart \in Choices([t \in DOMAIN sumoProgram |-> PhaseIndices(sumoProgram[t])])
    /\ laneOrder \in Choices([t \in DOMAIN sumoProgram |->
                                    ControlledLaneLists(sumoProgram[t])])
    /\ sumoPhase = [t \in DOMAIN sumoProgram |-> 0]
    /\ loaded = FALSE
    /\ delta_time \in DeltaTimes
    /\ control_mode \in modes
    /\ target_tls_ids = targets
    /\ simulation_step = 0
    /\ traffic_lights = <<>>
    /\ emergency_switches_total = 0
    /\ last = <<>>
    /\ hist = <<>>

\* the environment of one intersection under the control of an agent
EnvInit(targets) == EnvInitOf(targets, Networks, ControlModes)

Init ==
    /\ EnvInit(<<"t1">>)
    /\ fo = <<>>
    /\ pure = <<>>

\* reset(): the simulator restarts; `failed` are the target ids whose program
\* query raises
ResetWith(failures) ==
    \E failed \in failures :
        \E tl \in {detect_and_initialize_target_tls(target_tls_ids, traffic_lights, 1,
                                                    sumoProgram, failed, laneOrder)} :
            /\ traffic_lights' = [k \in DOMAIN tl |-> ResetTimers(tl[k])]
            /\ last' = [t \in Keys(tl) |-> NoLast]
            /\ hist' = [t \in Keys(tl) |-> NewHist(sumoStart[t])]
            /\ sumoPhase' = sumoStart
            /\ loaded' = TRUE
            /\ simulation_step' = 0
            /\ emergency_switches_total' = 0
            /\ UNCHANGED <<sumoProgram, sumoStart, laneOrder, delta_time, control_mode,
                           target_tls_ids>>

\* reset() where a program query only raises for an intersection that no
\* earlier reset initialised
ResetCore == ResetWith(SUBSET (DOMAIN sumoProgram \ Keys(traffic_lights)))

\* reset() of an environment that no controller object drives
Reset == ResetCore /\ UNCHANGED <<fo, pure>>

\* the increments of emergency_switches_total in _handle_emergency_switches:
\* one for every intersection whose needs_emergency_switch gave a phase
RECURSIVE CountEmergencies(_, _)
CountEmergencies(post, k) ==
    IF k > Len(post) THEN 0
    ELSE (IF post[k].flag THEN 1 ELSE 0) + CountEmergencies(post, k + 1)

\* _switch_to_phase when traci.trafficlight.setPhase raises: the exception is
\* caught, the manager and the simulator keep what they had after
\* needs_emergency_switch.  res is the result of the pass for manager m.
switch_outcome(res, m, prog, sp, now, raises) ==
    IF raises /\ res.kind # "none"
    THEN [res EXCEPT !.tls = needs_emergency_switch(m, prog, sp, now).tls,
                     !.sumo = sp,
                     !.kind = "none"]
    ELSE res

\* step(actions) with the action vector drawn from `vectors`; quietOnly: the
\* simulator keeps the phase it was put in during the advance.
\* pre: the loop over zip(tls_ids, actions[:len(tls_ids)]) calling
\* _execute_action (control_mode 'rl'); upd: the advance and
\* _update_all_metrics; post: _handle_emergency_switches.
\* raising: the sets of intersections whose setPhase may raise in the step.
StepRaising(vectors, quietOnly, telemetries, raising) ==
    \E actions \in vectors,
       telemetry \in telemetries,
       raised \in raising,
       sp2 \in [DOMAIN sumoProgram -> 0..3] :
      /\ \A t \in DOMAIN sumoProgram : sp2[t] \in PhaseIndices(sumoProgram[t])
      /\ LET now == simulation_step
             K == DOMAIN traffic_lights
             Id(k) == traffic_lights[k].tls_id
             Has(k) == control_mode = "rl" /\ k <= Len(actions)
             Act(k) == IF k <= Len(actions) THEN actions[k] ELSE 0
         IN
         \E pre \in {[k \in K |->
                        switch_outcome(PrePass(traffic_lights[k], sumoProgram[Id(k)],
                                               sumoPhase[Id(k)], Has(k), Act(k),
                                               telemetry, now),
                                       traffic_lights[k], sumoProgram[Id(k)],
                                       sumoPhase[Id(k)], now, Id(k) \in raised)]} :
         \E upd \in {[k \in K |-> update_all_metrics(pre[k].tls, sumoProgram[Id(k)],
                                                     sp2[Id(k)], now + delta_time,
                                                     delta_time)]} :
         \E post \in {[k \in K |->
                        switch_outcome(PostPass(upd[k], sumoProgram[Id(k)], sp2[Id(k)],
                                                control_mode, now + delta_time),
                                       upd[k], sumoProgram[Id(k)], sp2[Id(k)],
                                       now + delta_time, Id(k) \in raised)]} :
            /\ quietOnly => \A k \in K : sp2[Id(k)] = pre[k].sumo
            /\ traffic_lights' = [k \in K |-> post[k].tls]
            /\ sumoPhase' = [t \in DOMAIN sumoProgram |->
                                IF t \in Keys(traffic_lights)
                                THEN post[IndexOfKey(traffic_lights, t)].sumo
                                ELSE sp2[t]]
            /\ last' = [t \in Keys(traffic_lights) |->
                          LET k == IndexOfKey(traffic_lights, t)
                          IN  LastOf(traffic_lights[k], hist[t], sumoProgram[t],
                                     sumoPhase[t], Has(k), Act(k), pre[k], upd[k],
                                     post[k], sp2[t], now, delta_time)]
            /\ hist' = [t \in Keys(traffic_lights) |->
                          LET k == IndexOfKey(traffic_lights, t)
                          IN  HistOf(hist[t], Has(k), Act(k), pre[k], post[k], sp2[t],
                                     now, delta_time)]
            /\ emergency_switches_total' = emergency_switches_total
                                           + CountEmergencies(post, 1)
      /\ simulation_step' = simulation_step + delta_time
      /\ UNCHANGED <<sumoProgram, sumoStart, laneOrder, loaded, delta_time, control_mode, target_tls_ids>>

\* step(actions) in which every setPhase succeeds
StepTel(vectors, quietOnly, telemetries) ==
    StepRaising(vectors, quietOnly, telemetries, {{}})

\* step(actions) under any of the sampled lane telemetries
StepCore(vectors, quietOnly) ==
    StepTel(vectors, quietOnly, TelemetrySamples(sumoProgram))

\* step(actions) of an environment that no controller object drives
StepWith(vectors, quietOnly) ==
    StepCore(vectors, quietOnly) /\ UNCHANGED <<fo, pure>>

Step ==
    /\ loaded
    /\ simulation_step < MaxTicks * delta_time
    /\ StepWith(ActionVectors(Len(target_tls_ids)), FALSE)

Next == Reset \/ Step

Spec == Init /\ [][Next]_vars

\* the starvation scenario: every step hands Keep to every intersection and
\* the simulator never leaves the phase it was put in
KeepStep ==
    /\ loaded
    /\ simulation_step < ScenarioSeconds
    /\ StepWith({[k \in 1..Len(target_tls_ids) |-> 0]}, TRUE)

NextScenario == Reset \/ KeepStep

SpecScenario == Init /\ [][NextScenario]_vars

-----------------------------------------------------------------------------
(* Properties of the phase controller *)

Managed == DOMAIN last

\* C1: min-green invariant.  A policy-requested switch applied at time t
\* finds the previous applied switch of the intersection (policy or
\* emergency), or the episode start, at a time <= t - min_green_time.
C1_MinGreen ==
    \A t \in Managed :
        last[t].preKind = "policy" => last[t].prePrev <= last[t].preTime - MinGreenTime

\* a policy switch was applied after an earlier switch of the same episode
C1_Witness ==
    \E t \in Managed : last[t].preKind = "policy" /\ last[t].prePrev > 0

\* C2: starvation bound.  Whenever a red lane that some green phase serves
\* is starved beyond 0.8 * max_red_time and the cooldown has elapsed, the
\* decision of that pass is an emergency override to a phase serving a
\* starved lane.
C2_StarvationBound ==
    \A t \in Managed :
        /\ last[t].preDue # {} =>
                last[t].preFlag /\ last[t].preFlagPhase \in last[t].preDue
        /\ last[t].postDue # {} =>
                last[t].postKind = "emergency" /\ last[t].postTo \in last[t].postDue

\* C3: end-to-end starvation scenario.  Two green phases A and B, every lane
\* served, lane L1 served only by A, 5 s per decision, start in B, policy
\* always Keep: by 75 s of simulated time (tick 15) an emergency override
\* to A has been applied, and the phase index right after it is A.
ScenarioOf(t, A, B, L1) ==
    LET m == traffic_lights[IndexOfKey(traffic_lights, t)]
        prog == sumoProgram[t]
    IN  /\ delta_time = 5
        /\ m.min_green_time = 10 /\ m.max_red_time = 90
        /\ A # B /\ IdSet(m.green_phases) = {A, B}
        /\ IsGreenState(prog.phases[A + 1]) /\ IsGreenState(prog.phases[B + 1])
        /\ L1 \in GreenLanesOfState(prog.phases[A + 1], prog.links)
        /\ L1 \notin GreenLanesOfState(prog.phases[B + 1], prog.links)
        /\ \A l \in IdSet(m.controlled_lanes) :
                l \in GreenLanesOfState(prog.phases[A + 1], prog.links)
                       \cup GreenLanesOfState(prog.phases[B + 1], prog.links)
        /\ sumoStart[t] = B
        /\ hist[t].quiet

C3_Scenario ==
    \A t \in Managed : \A A, B \in PhaseIndices(sumoProgram[t]) :
        \A L1 \in LanesOf(sumoProgram[t]) :
            (ScenarioOf(t, A, B, L1) /\ simulation_step >= 75)
                => /\ hist[t].override # <<>>
                   /\ hist[t].override[1] <= 75
                   /\ hist[t].override[2] = A

\* the scenario ran to tick 15 and the override to A was applied
C3_Witness ==
    \E t \in Managed : \E A, B \in PhaseIndices(sumoProgram[t]) :
        \E L1 \in LanesOf(sumoProgram[t]) :
            /\ ScenarioOf(t, A, B, L1) /\ simulation_step >= 75
            /\ hist[t].override # <<>> /\ hist[t].override[2] = A

\* C4: emergency precedence.  When the starvation check of the pre-advance
\* pass flags a phase, the caller's action is not applied: the phase after
\* the pass is the flagged one or the one before, and no policy switch is
\* applied in that pass.
C4_EmergencyPrecedence ==
    \A t \in Managed :
        last[t].preFlag =>
            /\ last[t].preKind # "policy"
            /\ last[t].preTo \in {last[t].preFrom, last[t].preFlagPhase}

\* the check flagged a phase in a pass in which the caller asked to switch
C4_Witness ==
    \E t \in Managed :
        /\ last[t].preFlag /\ last[t].action = 1
        /\ last[t].preTo = last[t].preFrom

\* C5: at most one phase transition per step, the pre-advance and the
\* post-advance pass together.
C5_OneSwitchPerStep ==
    \A t \in Managed : last[t].switches <= 1

-----------------------------------------------------------------------------
(* AddisTargetedEnvironment._get_observation.  The vector is float32; its   *)
(* elements are kept as exact fractions <<num, den>> (rounding to float32   *)
(* is monotone and keeps 0 and 1, so it moves no element across a bound of  *)
(* [0, 1]).                                                                 *)

ObsLen == 607
TlsBlock == 86
TlsHeader == 2
ObsLanes == 12
LaneFeatures == 7
GlobalFeatures == 5
SwitchAgeScale == 100
SpeedScale == 50
ExpectedScale == 1000
EmergencyScale == 50

\* the seven numbers written for one lane, by position
LaneFeature(lm, f) ==
    CASE f = 0 -> <<lm.vehicle_count, VehicleCap>>
      [] f = 1 -> <<lm.queue_length, QueueCap>>
      [] f = 2 -> <<lm.waiting_time, WaitingCap>>
      [] f = 3 -> <<lm.mean_speed, SpeedScale>>
      [] f = 4 -> lm.occupancy
      [] f = 5 -> <<lm.density[1], lm.density[2] * DensityCap>>
      [] f = 6 -> <<lm.flow_rate, FlowCap>>

\* element k (from 0) of the block of an initialised intersection
TlsFeature(m, telemetry, k) ==
    IF k = 0 THEN <<m.current_phase, Max2(Len(m.phases), 1)>>
    ELSE IF k = 1 THEN RMin(<<m.time_since_last_switch, SwitchAgeScale>>, <<1, 1>>)
    ELSE LET lane_metrics == get_lane_metrics(m, telemetry)
             lanes == SubSeq(m.controlled_lanes, 1, Min2(Len(m.controlled_lanes), ObsLanes))
             i == (k - TlsHeader) \div LaneFeatures
         IN  IF i < Len(lanes)
             THEN LaneFeature(lane_metrics[lanes[i + 1]], (k - TlsHeader) % LaneFeatures)
             ELSE <<0, 1>>

\* the five global numbers; sim.ok = FALSE: the simulator query raised
GlobalFeature(sim, g) ==
    IF ~sim.ok THEN <<0, 1>>
    ELSE CASE g = 0 -> RMin(<<sim.expected, ExpectedScale>>, <<1, 1>>)
           [] g = 1 -> RMin(<<simulation_step, MaxTicks * delta_time>>, <<1, 1>>)
           [] g = 2 -> RMin(<<emergency_switches_total, EmergencyScale>>, <<1, 1>>)
           [] g = 3 -> <<Len(traffic_lights), Len(target_tls_ids)>>
           [] g = 4 -> <<0, 1>>

\* _get_observation: np.zeros(607) filled block by block
get_observation(telemetry, sim) ==
    [idx \in 1..ObsLen |->
        LET b == (idx - 1) \div TlsBlock
            k == (idx - 1) % TlsBlock
            g == idx - 1 - TlsBlock * Len(target_tls_ids)
        IN  IF b < Len(target_tls_ids)
            THEN IF target_tls_ids[b + 1] \in Keys(traffic_lights)
                 THEN TlsFeature(traffic_lights[IndexOfKey(traffic_lights,
                                                           target_tls_ids[b + 1])],
                                 telemetry, k)
                 ELSE <<0, 1>>
            ELSE IF g \in 0..(GlobalFeatures - 1) THEN GlobalFeature(sim, g)
            ELSE <<0, 1>>]

\* a lane with one vehicle at 60 m/s, and a lane whose queries raise
FastLane == [ok |-> TRUE, vehicles |-> 1, halting |-> 0, waiting |-> 0, speed |-> 60,
             length |-> 100]
FailedLane == [ok |-> FALSE, vehicles |-> 0, halting |-> 0, waiting |-> 0, speed |-> 0,
               length |-> 0]
ObsTelemetry == [{"L1", "L2", "L3"} -> {IdleLane, BusyLane, FastLane, FailedLane}]
ObsSimulator == {[ok |-> FALSE, expected |-> 0]} \cup
                {[ok |-> TRUE, expected |-> e] : e \in {0, 500, 2000}}

InUnit(x) == RLe(<<0, 1>>, x) /\ RLe(x, <<1, 1>>)

\* C6: observation range and length.  In every state after a reset and for
\* every non-negative lane telemetry, the vector of _get_observation has
\* exactly 607 elements and every element lies in [0, 1].
C6_ObservationRange ==
    loaded =>
        \A telemetry \in ObsTelemetry : \A sim \in ObsSimulator :
            LET obs == get_observation(telemetry, sim)
            IN  /\ Len(obs) = ObsLen
                /\ \A i \in 1..Len(obs) : InUnit(obs[i])

-----------------------------------------------------------------------------
(* The specifications of the stand-alone functions leave the environment    *)
(* unbuilt.                                                                 *)

EnvUnused ==
    /\ sumoProgram = <<>> /\ sumoStart = <<>> /\ laneOrder = <<>> /\ sumoPhase = <<>>
    /\ loaded = FALSE /\ delta_time = 0 /\ control_mode = "" /\ target_tls_ids = <<>>
    /\ simulation_step = 0 /\ traffic_lights = <<>> /\ emergency_switches_total = 0
    /\ last = <<>> /\ hist = <<>>

-----------------------------------------------------------------------------
(* Dimension adaptation: adapt_observation of the bridge and the tail of    *)
(* AddisTrafficEnvironment._get_observation.  Numbers are counted in halves *)
(* of the float32 spacing: the even ones are float32 values, an odd one is  *)
(* a float64 half-way between two of them.                                  *)

\* longest produced vector and largest target dimension of the model
MaxObsLen == 3
MaxDim == 4

\* conversion to float32: round to nearest, ties to the even mantissa
Float32(x) == IF x % 2 = 0 THEN x ELSE IF (x + 1) % 4 = 0 THEN x + 1 ELSE x - 1

Zeros(n) == [i \in 1..n |-> 0]

\* (mutant) the zeros put in front of the vector, the slice taken from its end
adapt_observation_wrong_end(ob, target_dim) ==
    LET arr == [i \in 1..Len(ob) |-> Float32(ob[i])]
    IN  IF Len(arr) = target_dim THEN arr
        ELSE IF Len(arr) > target_dim
             THEN SubSeq(arr, Len(arr) - target_dim + 1, Len(arr))
        ELSE Zeros(target_dim - Len(arr)) \o arr

\* adapt_observation(ob, target_dim) of the bridge
adapt_observation(ob, target_dim) ==
    LET arr == [i \in 1..Len(ob) |-> Float32(ob[i])]
    IN  IF Len(arr) = target_dim THEN arr
        ELSE IF Len(arr) > target_dim THEN SubSeq(arr, 1, target_dim)
        ELSE arr \o Zeros(target_dim - Len(arr))

\* the list `obs` after the pad/truncate tail of
\* AddisTrafficEnvironment._get_observation
pad_truncate_tail(obs, expected_dim) ==
    IF Len(obs) < expected_dim THEN obs \o Zeros(expected_dim - Len(obs))
    ELSE IF Len(obs) > expected_dim THEN SubSeq(obs, 1, expected_dim)
    ELSE obs

\* the float32 array the environment hands to the bridge, and the list of
\* floats the tail works on
ArrayValues == {0, 2, 4}
ListValues == {0, 3, 4}
SeqsUpTo(S, n) == UNION {[1..k -> S] : k \in 0..n}

InitAdapt ==
    /\ EnvUnused
    /\ fo = <<>>
    /\ \E kind \in {"array", "list"} :
        \E ob \in SeqsUpTo(IF kind = "array" THEN ArrayValues ELSE ListValues, MaxObsLen) :
        \E D \in 1..MaxDim :
            pure = [fn |-> "adapt", kind |-> kind, ob |-> ob, target_dim |-> D,
                    via |-> "none", out |-> <<>>, returned |-> <<>>]

\* obs = adapt_observation(obs, expected_dim)
AdaptObservation ==
    /\ pure.fn = "adapt" /\ pure.kind = "array" /\ pure.via = "none"
    /\ \E out \in {adapt_observation(pure.ob, pure.target_dim)} :
            pure' = [pure EXCEPT !.via = "bridge", !.out = out, !.returned = out]
    /\ UNCHANGED <<envVars, fo>>

\* the tail of _get_observation and its return np.array(obs, dtype=float32)
PadTruncateTail ==
    /\ pure.fn = "adapt" /\ pure.kind = "list" /\ pure.via = "none"
    /\ \E out \in {pad_truncate_tail(pure.ob, pure.target_dim)} :
            pure' = [pure EXCEPT !.via = "tail", !.out = out,
                                 !.returned = [i \in 1..Len(out) |-> Float32(out[i])]]
    /\ UNCHANGED <<envVars, fo>>

NextAdapt == AdaptObservation \/ PadTruncateTail

SpecAdapt == InitAdapt /\ [][NextAdapt]_vars

\* C7: dimension adaptation.  For a produced vector of length L and a
\* target dimension D the adapted vector has length exactly D; for L < D its
\* first L elements are the input and the other D - L are 0; for L > D it is
\* the first D elements of the input; for L = D it is the input.
C7_DimensionAdaptation ==
    pure.via # "none" =>
        LET L == Len(pure.ob)
            D == pure.target_dim
        IN  /\ Len(pure.out) = D /\ Len(pure.returned) = D
            /\ L < D => /\ SubSeq(pure.out, 1, L) = pure.ob
                         /\ \A i \in (L + 1)..D : pure.out[i] = 0
            /\ L > D => pure.out = SubSeq(pure.ob, 1, D)
            /\ L = D => pure.out = pure.ob

\* the bridge padded a shorter, non-empty, non-zero vector
C7_Witness ==
    /\ pure.via = "bridge"
    /\ Len(pure.ob) \in 1..(pure.target_dim - 1)
    /\ \E i \in 1..Len(pure.ob) : pure.ob[i] # 0
    /\ Len(pure.out) = pure.target_dim

-----------------------------------------------------------------------------
(* The fairness score of fairness_combined_reward and of                    *)
(* FairnessInfoWrapper._add_fairness_info.  The floats of the source are    *)
(* kept as exact fractions in lowest terms.                                 *)

\* most green phases of a signal, and most observed ticks, of the model
MaxGreenPhases == 13
MaxSteps == 120

WarmUp == 100
VarianceScale == 10
DefaultPhases == 4

RECURSIVE GCD(_, _)
GCD(a, b) == IF b = 0 THEN a ELSE GCD(b, a % b)
Abs(x) == IF x < 0 THEN -x ELSE x
RNorm(a) == LET g == GCD(Abs(a[1]), a[2]) IN <<a[1] \div g, a[2] \div g>>
RAdd(a, b) == LET l == (a[2] \div GCD(a[2], b[2])) * b[2]
              IN  RNorm(<<a[1] * (l \div a[2]) + b[1] * (l \div b[2]), l>>)
RSub(a, b) == RAdd(a, <<-b[1], b[2]>>)
RMul(a, b) == LET x == RNorm(<<a[1], b[2]>>)
                  y == RNorm(<<b[1], a[2]>>)
              IN  <<x[1] * y[1], x[2] * y[2]>>
RLt(a, b) == a[1] * b[2] < b[1] * a[2]
RMax(a, b) == IF RLe(a, b) THEN b ELSE a

RECURSIVE SumValues(_, _)
SumValues(d, keys) ==
    IF keys = {} THEN 0
    ELSE LET k == CHOOSE x \in keys : TRUE IN d[k] + SumValues(d, keys \ {k})

\* phase_usage.get(i, 0)
DictGet(d, i) == IF i \in DOMAIN d THEN d[i] ELSE 0

\* sum((u - expected_usage)**2 for u in usage_values) from phase i on, for
\* u = count / total_usage and expected_usage = 1 / e: its numerator over
\* the denominator (e * total_usage)^2
RECURSIVE SumSquares(_, _, _, _, _)
SumSquares(phase_usage, total_usage, e, n, i) ==
    IF i >= n THEN 0
    ELSE LET d == e * DictGet(phase_usage, i) - total_usage
         IN  d * d + SumSquares(phase_usage, total_usage, e, n, i + 1)

\* (mutant) the expected share taken over the keys of the histogram
usage_variance_by_keys(phase_usage, total_usage, num_green_phases) ==
    LET e == Cardinality(DOMAIN phase_usage)
    IN  RNorm(<<SumSquares(phase_usage, total_usage, e, num_green_phases, 0),
                e * total_usage * e * total_usage * num_green_phases>>)

\* the variance of the normalised usage over range(num_green_phases)
usage_variance(phase_usage, total_usage, num_green_phases) ==
    LET e == num_green_phases
    IN  RNorm(<<SumSquares(phase_usage, total_usage, e, num_green_phases, 0),
                e * total_usage * e * total_usage * num_green_phases>>)

\* (mutant) the variance taken unscaled
score_of_variance_unscaled(variance) ==
    RMax(<<0, 1>>, RSub(<<1, 1>>, variance))

\* max(0, 1.0 - variance * 10)
score_of_variance(variance) ==
    RMax(<<0, 1>>, RSub(<<1, 1>>, RMul(variance, <<VarianceScale, 1>>)))

\* the fairness component of fairness_combined_reward
reward_fairness_score(phase_usage, step_count, num_green_phases) ==
    IF step_count > WarmUp
    THEN LET total_usage == SumValues(phase_usage, DOMAIN phase_usage)
         IN  IF total_usage > 0
             THEN score_of_variance(usage_variance(phase_usage, total_usage,
                                                   num_green_phases))
             ELSE <<1, 1>>
    ELSE <<1, 1>>

\* the score _add_fairness_info writes for one signal
info_fairness_score(phase_usage, step_count, num_green_phases) ==
    LET total_usage == SumValues(phase_usage, DOMAIN phase_usage)
    IN  IF total_usage > 0 /\ step_count > WarmUp
        THEN score_of_variance(usage_variance(phase_usage, total_usage, num_green_phases))
        ELSE <<1, 1>>

\* the histograms drawn: over range(n) or over the default keys, every green
\* phase with the same count or one phase with all of it
HistogramKeys(n) == {0..(n - 1), 0..(Max2(n, DefaultPhases) - 1)}
UniformHistograms(n) ==
    {[i \in keys |-> IF i < n THEN c ELSE 0] :
        keys \in HistogramKeys(n), c \in {x \in 1..MaxSteps : n * x <= MaxSteps}}
ConcentratedHistograms(n) ==
    {[i \in keys |-> IF i = j THEN t ELSE 0] :
        keys \in HistogramKeys(n), j \in 0..(n - 1), t \in {WarmUp, WarmUp + 1, MaxSteps}}

InitFair ==
    /\ EnvUnused
    /\ fo = <<>>
    /\ \E n \in 1..MaxGreenPhases :
        \E h \in UniformHistograms(n) \cup ConcentratedHistograms(n) :
            pure = [fn |-> "fair", num_green_phases |-> n, phase_usage |-> h,
                    step_count |-> SumValues(h, DOMAIN h),
                    reward |-> <<>>, info |-> <<>>]

RewardFairness ==
    /\ pure.fn = "fair" /\ pure.reward = <<>>
    /\ pure' = [pure EXCEPT !.reward = reward_fairness_score(pure.phase_usage,
                                            pure.step_count, pure.num_green_phases)]
    /\ UNCHANGED <<envVars, fo>>

InfoFairness ==
    /\ pure.fn = "fair" /\ pure.info = <<>>
    /\ pure' = [pure EXCEPT !.info = info_fairness_score(pure.phase_usage,
                                          pure.step_count, pure.num_green_phases)]
    /\ UNCHANGED <<envVars, fo>>

NextFair == RewardFairness \/ InfoFairness

SpecFair == InitFair /\ [][NextFair]_vars

GreenRange == 0..(pure.num_green_phases - 1)
IsUniform ==
    \A i, j \in GreenRange : DictGet(pure.phase_usage, i) = DictGet(pure.phase_usage, j)
IsConcentrated ==
    \E j \in GreenRange :
        /\ pure.phase_usage[j] > 0
        /\ \A i \in DOMAIN pure.phase_usage \ {j} : pure.phase_usage[i] = 0
Scores == {pure.reward, pure.info} \ {<<>>}

\* C8: fairness score, uniform case.  Past warm-up (step_count > 100), for
\* every n >= 1 and every histogram giving the n green phases the same count,
\* the score of fairness_combined_reward and of _add_fairness_info is 1.0.
C8_UniformScore ==
    (pure.step_count > WarmUp /\ IsUniform) => \A x \in Scores : x = <<1, 1>>

\* both functions scored a uniform histogram of three phases past warm-up
C8_Witness ==
    /\ pure.step_count > WarmUp /\ IsUniform /\ pure.num_green_phases = 3
    /\ pure.reward = <<1, 1>> /\ pure.info = <<1, 1>>

\* C9 as stated: past warm-up, for every n >= 2, a histogram with all the
\* usage on one phase scores strictly less than 0.2.
C9_ConcentratedScore ==
    (pure.step_count > WarmUp /\ pure.num_green_phases >= 2 /\ IsConcentrated)
        => \A x \in Scores : RLt(x, <<1, 5>>)

\* C9: fairness score, concentrated case.  Past warm-up, for every n with
\* 2 <= n <= 11, a histogram with all the usage on one phase scores strictly
\* less than 0.2.
C9_ConcentratedScoreUpTo11 ==
    (pure.step_count > WarmUp /\ pure.num_green_phases \in 2..11 /\ IsConcentrated)
        => \A x \in Scores : RLt(x, <<1, 5>>)

\* both functions scored a concentrated histogram of eleven phases: 21/121
C9_Witness ==
    /\ pure.step_count > WarmUp /\ pure.num_green_phases = 11 /\ IsConcentrated
    /\ pure.reward = <<21, 121>> /\ pure.info = <<21, 121>>

-----------------------------------------------------------------------------
(* FairnessObservationFunction: the counters kept by __call__ and reset().  *)
(* `calls` and `resets` count the calls since the last reset and the        *)
(* resets; they are not fields of the object.  None is NoPhase.            *)

\* observation calls of an episode, resets, and the largest phase index the
\* signal reports
MaxCalls == 4
MaxResets == 1
MaxPhaseIndex == 4

\* the green-phase counts of the signals of the model
SignalPhases == {2, 3}

EmptyHistogram(num_phases) == [i \in 0..(num_phases - 1) |-> 0]

\* __init__: getattr(ts, 'num_green_phases', 4)
fairness_init(num_phases, ts_phases) ==
    [phase_usage |-> EmptyHistogram(num_phases), last_action |-> NoPhase,
     same_phase_count |-> 0, step_count |-> 0,
     num_green_phases |-> ts_phases, calls |-> 0, resets |-> 0]

\* (mutant) a phase missing from the histogram is not counted
fairness_call_known_only(o, current_phase) ==
    [o EXCEPT !.phase_usage = IF current_phase \in DOMAIN o.phase_usage
                              THEN [o.phase_usage EXCEPT ![current_phase] = @ + 1]
                              ELSE o.phase_usage,
              !.last_action = current_phase,
              !.same_phase_count = IF o.last_action = NoPhase THEN @
                                   ELSE IF current_phase = o.last_action THEN @ + 1
                                   ELSE 0,
              !.step_count = @ + 1,
              !.calls = @ + 1]

\* (mutant) the stagnation counter kept when the active phase changes
fairness_call_no_restart(o, current_phase) ==
    LET usage == IF current_phase \in DOMAIN o.phase_usage THEN o.phase_usage
                 ELSE [i \in DOMAIN o.phase_usage \cup {current_phase} |->
                            DictGet(o.phase_usage, i)]
    IN  [o EXCEPT !.phase_usage = [usage EXCEPT ![current_phase] = @ + 1],
                  !.last_action = current_phase,
                  !.same_phase_count = IF o.last_action = NoPhase THEN @
                                       ELSE IF current_phase = o.last_action THEN @ + 1
                                       ELSE @,
                  !.step_count = @ + 1,
                  !.calls = @ + 1]

\* __call__ with ts.green_phase = current_phase
fairness_call(o, current_phase) ==
    LET usage == IF current_phase \in DOMAIN o.phase_usage THEN o.phase_usage
                 ELSE [i \in DOMAIN o.phase_usage \cup {current_phase} |->
                            DictGet(o.phase_usage, i)]
    IN  [o EXCEPT !.phase_usage = [usage EXCEPT ![current_phase] = @ + 1],
                  !.last_action = current_phase,
                  !.same_phase_count = IF o.last_action = NoPhase THEN @
                                       ELSE IF current_phase = o.last_action THEN @ + 1
                                       ELSE 0,
                  !.step_count = @ + 1,
                  !.calls = @ + 1]

\* reset(): the histogram rebuilt over range(ts.num_green_phases)
fairness_reset(o) ==
    [o EXCEPT !.phase_usage = EmptyHistogram(o.num_green_phases),
              !.last_action = NoPhase,
              !.same_phase_count = 0,
              !.step_count = 0,
              !.calls = 0,
              !.resets = @ + 1]

InitHist ==
    /\ EnvUnused
    /\ pure = <<>>
    /\ \E n \in SignalPhases : \E num_phases \in {n, DefaultPhases} :
            fo = fairness_init(num_phases, n)

FoCall ==
    /\ fo # <<>> /\ fo.calls < MaxCalls
    /\ \E current_phase \in 0..MaxPhaseIndex : fo' = fairness_call(fo, current_phase)
    /\ UNCHANGED <<envVars, pure>>

FoReset ==
    /\ fo # <<>> /\ fo.resets < MaxResets
    /\ fo' = fairness_reset(fo)
    /\ UNCHANGED <<envVars, pure>>

NextHist == FoCall \/ FoReset

SpecHist == InitHist /\ [][NextHist]_vars

\* C10: histogram total.  After construction or reset() and any number n of
\* observation calls with any active phases, also phases missing from the
\* initial histogram, the counts of phase_usage sum to step_count and to n.
C10_HistogramTotal ==
    /\ SumValues(fo.phase_usage, DOMAIN fo.phase_usage) = fo.step_count
    /\ fo.step_count = fo.calls

\* after a reset, three calls or more, one with a phase that the histogram
\* of the reset did not hold
C10_Witness ==
    /\ fo.resets = 1 /\ fo.calls >= 3
    /\ \E k \in DOMAIN fo.phase_usage : k >= fo.num_green_phases /\ fo.phase_usage[k] > 0
    /\ SumValues(fo.phase_usage, DOMAIN fo.phase_usage) = fo.calls

-----------------------------------------------------------------------------
(* FixedTimeController.run_episode driving an AddisTargetedEnvironment.     *)
(* `pure` holds the controller object and, per intersection, the time of    *)
(* the last Switch it emitted (`emit`, 0 at the start of the episode) and   *)
(* that time as it was before the last step (`prev`).                       *)

\* simulated seconds of an episode under the fixed-time controller
FixedSeconds == 130

\* green_time: the default and the one giving a cycle of 60 with yellow_time 4
FixedGreenTimes == {25, 56}

\* the loop building `actions`, from target i on
RECURSIVE fixed_actions(_, _, _, _)
fixed_actions(targets, tl, cycle_time, i) ==
    IF i > Len(targets) THEN <<>>
    ELSE IF targets[i] \in Keys(tl)
         THEN LET tls == tl[IndexOfKey(tl, targets[i])]
                  should_switch == tls.time_since_last_switch >= cycle_time
              IN  <<IF should_switch THEN 1 ELSE 0>>
                  \o fixed_actions(targets, tl, cycle_time, i + 1)
         ELSE fixed_actions(targets, tl, cycle_time, i + 1)

\* step(actions) as a function, for a simulator that keeps the phase it was
\* put in: the managers and the simulator phases after the step
QuietStep(tl, sumo, actions, telemetry, now) ==
    LET Has(k) == control_mode = "rl" /\ k <= Len(actions)
        Act(k) == IF k <= Len(actions) THEN actions[k] ELSE 0
        Prog(k) == sumoProgram[tl[k].tls_id]
        pre == [k \in DOMAIN tl |->
                    PrePass(tl[k], Prog(k), sumo[tl[k].tls_id], Has(k), Act(k),
                            telemetry, now)]
        post == [k \in DOMAIN tl |->
                    PostPass(update_all_metrics(pre[k].tls, Prog(k), pre[k].sumo,
                                                now + delta_time, delta_time),
                             Prog(k), pre[k].sumo, control_mode, now + delta_time)]
    IN  [tl |-> [k \in DOMAIN tl |-> post[k].tls],
         sumo |-> [t \in DOMAIN sumo |->
                      IF t \in Keys(tl) THEN post[IndexOfKey(tl, t)].sumo ELSE sumo[t]]]

\* FixedTimeController.__init__; `twin` is a second run of the controller on
\* the same network, with telemetry of its own, and twinActions the actions
\* the controller emitted in it at the last tick
NewFixedController(green_time, yellow_time) ==
    [fn |-> "fixed", green_time |-> green_time, yellow_time |-> yellow_time,
     cycle_time |-> green_time + yellow_time, emit |-> <<>>, prev |-> <<>>,
     twin |-> <<>>, twinActions |-> <<>>]

InitFixed ==
    /\ EnvInit(<<"t1">>)
    /\ fo = <<>>
    /\ \E g \in FixedGreenTimes : pure = NewFixedController(g, YellowTime)

\* obs, info = self.env.reset()
FixedReset ==
    /\ ~loaded
    /\ ResetCore
    /\ pure' = [pure EXCEPT !.emit = [t \in DOMAIN sumoProgram |-> 0],
                            !.prev = [t \in DOMAIN sumoProgram |-> 0],
                            !.twin = [tl |-> traffic_lights', sumo |-> sumoPhase'],
                            !.twinActions = <<>>]
    /\ UNCHANGED fo

\* one turn of the while loop: the actions, then self.env.step(actions)
FixedStep ==
    /\ loaded
    /\ simulation_step < FixedSeconds
    /\ \E actions \in {fixed_actions(target_tls_ids, traffic_lights, pure.cycle_time, 1)},
          actions2 \in {fixed_actions(target_tls_ids, pure.twin.tl, pure.cycle_time, 1)},
          telemetry2 \in TelemetrySamples(sumoProgram) :
        /\ StepCore({actions}, TRUE)
        /\ pure' = [pure EXCEPT
                        !.prev = pure.emit,
                        !.emit = [t \in DOMAIN pure.emit |->
                                    IF /\ t \in Keys(traffic_lights)
                                       /\ actions[IndexOfKey(traffic_lights, t)] = 1
                                    THEN simulation_step ELSE pure.emit[t]],
                        !.twin = QuietStep(pure.twin.tl, pure.twin.sumo, actions2,
                                           telemetry2, simulation_step),
                        !.twinActions = actions2]
    /\ UNCHANGED fo

NextFixed == FixedReset \/ FixedStep

SpecFixed == InitFixed /\ [][NextFixed]_vars

\* C11: fixed-cycle periodicity.  Under FixedTimeController with a cycle of
\* 60 and min green 10, at every tick of the episode the action emitted for
\* an intersection is Switch if exactly 60 simulated seconds have passed
\* since the last emitted Switch (or the start of the episode), and Keep
\* otherwise.
C11_FixedCyclePeriod ==
    (pure.cycle_time = 60 /\ loaded /\ simulation_step > 0) =>
        \A t \in Managed :
            traffic_lights[IndexOfKey(traffic_lights, t)].min_green_time = 10 =>
                (last[t].action = 1 <=> last[t].preTime - pure.prev[t] = 60)

\* C12: fixed-cycle telemetry independence.  Two runs of the fixed-time
\* controller on the same network and programs that differ only in the lane
\* telemetry emit the same Keep / Switch action for every intersection at
\* every tick.
C12_TelemetryIndependence ==
    (loaded /\ simulation_step > 0) =>
        \A t \in Managed :
            last[t].action = pure.twinActions[IndexOfKey(traffic_lights, t)]

-----------------------------------------------------------------------------
(* AddisTargetedEnvironment in control_mode 'sumo_default', the mode of     *)
(* SumoDefaultController; step() is handed any action vector, the empty one *)
(* of the controller among them.                                            *)

InitDefault ==
    /\ EnvInitOf(<<"t1">>, Networks, {"sumo_default"})
    /\ fo = <<>>
    /\ pure = <<>>

SpecDefault == InitDefault /\ [][Next]_vars

\* C13: pass-through baseline.  In control_mode 'sumo_default' no step issues
\* a phase command, whatever the action vector: phase_switches and
\* emergency_switches of every intersection and emergency_switches_total of
\* the episode stay 0, and neither pass of a step switches a phase.
C13_PassThrough ==
    control_mode = "sumo_default" =>
        /\ emergency_switches_total = 0
        /\ \A k \in DOMAIN traffic_lights :
                /\ traffic_lights[k].phase_switches = 0
                /\ traffic_lights[k].emergency_switches = 0
        /\ \A t \in Managed : last[t].preKind = "none" /\ last[t].postKind = "none"

\* two steps or more were taken, and a lane that is red and served by a
\* green phase has been red for more than 0.8 * max_red_time, the cooldown
\* elapsed: the state in which the agent-controlled mode overrides
C13_Witness ==
    /\ control_mode = "sumo_default" /\ loaded
    /\ simulation_step >= 2 * delta_time
    /\ \E k \in DOMAIN traffic_lights :
        LET m == traffic_lights[k]
        IN  /\ DuePhases(m, sumoProgram[m.tls_id], sumoPhase[m.tls_id],
                         simulation_step) # {}
            /\ m.phase_switches = 0

-----------------------------------------------------------------------------
(* TLSFilterWrapper over a parallel environment.  `pure` holds the base     *)
(* environment (its agents, the number of reset / step calls it got, the    *)
(* actions of the last step it got) and the wrapper object once it is       *)
(* constructed.  Dicts are functions; None is the empty tuple of tls_ids.   *)

\* longest tls_ids list and most reset() / step() calls on a wrapper
MaxTlsIds == 2
MaxFilterCalls == 2

\* env.possible_agents of the base environment, and an id it does not know
BaseAgents == <<"a", "b">>
AgentIds == IdSet(BaseAgents) \cup {"x"}

\* the dicts with keys among S and values in V
Dicts(S, V) == UNION {[K -> V] : K \in SUBSET S}

\* {a: d[a] for a in d if a in selected}
FilterDict(d, selected) == [a \in {k \in DOMAIN d : k \in IdSet(selected)} |-> d[a]]

\* [a for a in agents if a in selected], for a list of agents
RECURSIVE FilterList(_, _)
FilterList(agents, selected) ==
    IF agents = <<>> THEN <<>>
    ELSE (IF Head(agents) \in IdSet(selected) THEN <<Head(agents)>> ELSE <<>>)
         \o FilterList(Tail(agents), selected)

\* (mutant) the spaces looked up with a default instead of by key
filter_init_lenient(base, tls_ids) ==
    LET selected_tls == IF tls_ids # <<>> THEN tls_ids ELSE base.possible_agents
    IN  [raised |-> FALSE,
         selected_tls |-> selected_tls,
         possible_agents |-> selected_tls,
         agents |-> FilterList(base.agents, selected_tls),
         observation_spaces |-> IdSet(selected_tls),
         action_spaces |-> IdSet(selected_tls)]

\* TLSFilterWrapper.__init__(env, tls_ids): the new object, or raised = TRUE
\* for the KeyError of env.observation_spaces[a]
filter_init(base, tls_ids) ==
    LET selected_tls == IF tls_ids # <<>> THEN tls_ids ELSE base.possible_agents
    IN  IF \E i \in DOMAIN selected_tls : selected_tls[i] \notin base.spaces
        THEN [raised |-> TRUE]
        ELSE [raised |-> FALSE,
              selected_tls |-> selected_tls,
              possible_agents |-> selected_tls,
              agents |-> FilterList(base.agents, selected_tls),
              observation_spaces |-> IdSet(selected_tls),
              action_spaces |-> IdSet(selected_tls)]

\* (mutant) every action of a selected agent forwarded, also those of agents
\* the base environment does not hold
forwarded_actions_selected(actions, selected_tls, env_agents) ==
    [a \in {k \in DOMAIN actions : k \in IdSet(selected_tls)} |-> actions[a]]

\* forwarded_actions of step()
forwarded_actions(actions, selected_tls, env_agents) ==
    [a \in {k \in DOMAIN actions : k \in IdSet(selected_tls) /\ k \in IdSet(env_agents)}
        |-> actions[a]]

\* what the base environment returns for its agents: one dict per kind
BaseDict(agents, kind) == [a \in IdSet(agents) |-> <<kind, a>>]
ReturnKinds == {"obs", "rewards", "terms", "truncs", "infos"}

\* the lists of the agents of `agents` that stay after a step
RemainingAgents(agents) ==
    {FilterList(agents, kept) : kept \in SeqsUpTo(IdSet(agents), Len(agents))}

InitFilter ==
    /\ EnvUnused
    /\ fo = <<>>
    /\ pure = [fn |-> "filter",
               base |-> [possible_agents |-> BaseAgents, agents |-> BaseAgents,
                         spaces |-> IdSet(BaseAgents), calls |-> 0, got |-> <<>>],
               status |-> "none", tls_ids |-> <<>>, wrapper |-> <<>>,
               calls |-> 0, asked |-> <<>>, returned |-> <<>>]

\* TLSFilterWrapper(env, tls_ids=tls_ids)
FilterConstruct ==
    /\ pure.fn = "filter" /\ pure.status = "none"
    /\ \E tls_ids \in SeqsUpTo(AgentIds, MaxTlsIds) :
        \E w \in {filter_init(pure.base, tls_ids)} :
            pure' = [pure EXCEPT !.tls_ids = tls_ids,
                                 !.status = IF w.raised THEN "error" ELSE "constructed",
                                 !.wrapper = IF w.raised THEN <<>> ELSE w]
    /\ UNCHANGED <<envVars, fo>>

\* reset(): the base environment is reset and holds all its agents again
FilterReset ==
    /\ pure.fn = "filter" /\ pure.status = "constructed" /\ pure.calls < MaxFilterCalls
    /\ LET agents == pure.base.possible_agents
           obs == BaseDict(agents, "obs")
           filtered_obs == FilterDict(obs, pure.wrapper.selected_tls)
       IN  pure' = [pure EXCEPT
                        !.base.agents = agents,
                        !.base.calls = @ + 1,
                        !.wrapper.agents = FilterList(agents, pure.wrapper.selected_tls),
                        !.calls = @ + 1,
                        !.asked = <<>>,
                        !.returned = [obs |-> filtered_obs]]
    /\ UNCHANGED <<envVars, fo>>

\* step(actions): the base environment answers for the agents it holds and
\* may lose some of them
FilterStep ==
    /\ pure.fn = "filter" /\ pure.status = "constructed" /\ pure.calls < MaxFilterCalls
    /\ \E actions \in Dicts(AgentIds, {0, 1}), remaining \in RemainingAgents(pure.base.agents) :
        LET selected == pure.wrapper.selected_tls
            fwd == forwarded_actions(actions, selected, pure.base.agents)
            ret == [kind \in ReturnKinds |->
                        FilterDict(BaseDict(pure.base.agents, kind), selected)]
        IN  pure' = [pure EXCEPT
                        !.base.agents = remaining,
                        !.base.calls = @ + 1,
                        !.base.got = <<pure.base.agents, fwd>>,
                        !.wrapper.agents = FilterList(pure.base.agents, selected),
                        !.calls = @ + 1,
                        !.asked = <<actions>>,
                        !.returned = ret]
    /\ UNCHANGED <<envVars, fo>>

NextFilter == FilterConstruct \/ FilterReset \/ FilterStep

SpecFilter == InitFilter /\ [][NextFilter]_vars

\* C14: agent filtering.  step() forwards to the wrapped environment exactly
\* the entries of the action dict whose agent is in selected_tls and among
\* the wrapped environment's agents, values unchanged; every dict step()
\* returns, and self.agents after reset() and after every step(), hold only
\* agents of selected_tls.
C14_AgentFiltering ==
    (pure.status = "constructed" /\ pure.calls > 0) =>
        LET selected == IdSet(pure.wrapper.selected_tls)
        IN  /\ IdSet(pure.wrapper.agents) \subseteq selected
            /\ \A kind \in DOMAIN pure.returned :
                    DOMAIN pure.returned[kind] \subseteq selected
            /\ pure.asked # <<>> =>
                    LET actions == pure.asked[1]
                        env_agents == IdSet(pure.base.got[1])
                        got == pure.base.got[2]
                    IN  /\ DOMAIN pure.returned = ReturnKinds
                        /\ DOMAIN got = (DOMAIN actions \cap selected) \cap env_agents
                        /\ \A a \in DOMAIN got : got[a] = actions[a]

\* a step was handed actions for a selected agent the wrapped environment
\* holds, for one it lost, and for an agent that is not selected
C14_Witness ==
    /\ pure.status = "constructed" /\ pure.asked # <<>>
    /\ LET actions == pure.asked[1]
           selected == IdSet(pure.wrapper.selected_tls)
       IN  /\ DOMAIN pure.base.got[2] # {}
           /\ \E a \in DOMAIN actions : a \notin selected
           /\ \E a \in DOMAIN actions : a \in selected /\ a \notin IdSet(pure.base.got[1])

\* C16: unknown agent id is fatal at setup.  Constructing the wrapper with a
\* requested id that is no agent of the base environment raises during the
\* construction, before any reset or step; no wrapper exists whose
\* selected_tls holds an id unknown to the base environment.
C16_UnknownAgentFatal ==
    /\ pure.status = "constructed" =>
            IdSet(pure.wrapper.selected_tls) \subseteq IdSet(pure.base.possible_agents)
    /\ (pure.status # "none" /\ ~(IdSet(pure.tls_ids) \subseteq IdSet(pure.base.possible_agents)))
            => pure.status = "error"
    /\ pure.status = "error" =>
            pure.wrapper = <<>> /\ pure.base.calls = 0 /\ pure.calls = 0

\* a construction with a known and an unknown id raised
C16_Witness ==
    /\ pure.status = "error"
    /\ \E i, j \in DOMAIN pure.tls_ids :
            /\ pure.tls_ids[i] \in IdSet(pure.base.possible_agents)
            /\ pure.tls_ids[j] \notin IdSet(pure.base.possible_agents)

-----------------------------------------------------------------------------
(* AddisTargetedEnvironment with two target ids, of which the simulator may *)
(* not know one, and whose program query may raise at any reset.  `pure`    *)
(* holds what the caller saw: the number of resets, the lists found_tls and *)
(* missing_tls of the last reset, and the action vector of the last step.   *)

\* resets of one environment object, and decision ticks of an episode
MaxEpisodes == 2
TargetTicks == 1

\* an intersection of one lane, green in phase 0 and red in phase 1
ProgSingle == [links |-> <<"L3">>, phases |-> << <<"G">>, <<"r">> >>]

TwoTargets == <<"t1", "t2">>
TargetNetworks ==
    { [t \in {"t1", "t2"} |-> IF t = "t1" THEN ProgAB ELSE ProgSingle],
      [t \in {"t2"} |-> ProgSingle],
      [t \in {"t1"} |-> ProgAB] }

\* found_tls of _detect_and_initialize_target_tls, from target i on
RECURSIVE found_tls(_, _, _, _)
found_tls(targets, programs, failed, i) ==
    IF i > Len(targets) THEN <<>>
    ELSE (IF targets[i] \in DOMAIN programs /\ targets[i] \notin failed
          THEN <<targets[i]>> ELSE <<>>)
         \o found_tls(targets, programs, failed, i + 1)

\* missing_tls of _detect_and_initialize_target_tls, from target i on
RECURSIVE missing_tls(_, _, _, _)
missing_tls(targets, programs, failed, i) ==
    IF i > Len(targets) THEN <<>>
    ELSE (IF targets[i] \in DOMAIN programs /\ targets[i] \notin failed
          THEN <<>> ELSE <<targets[i]>>)
         \o missing_tls(targets, programs, failed, i + 1)

InitTargets ==
    /\ EnvInitOf(TwoTargets, TargetNetworks, {"rl"})
    /\ fo = <<>>
    /\ pure = [fn |-> "targets", resets |-> 0, found |-> <<>>, missing |-> <<>>,
               actions |-> <<>>, stepped |-> FALSE]

\* reset(): any program query may raise
TargetsReset ==
    /\ pure.resets < MaxEpisodes
    /\ \E failed \in SUBSET (DOMAIN sumoProgram) :
        /\ ResetWith({failed})
        /\ pure' = [pure EXCEPT
                        !.resets = @ + 1,
                        !.found = found_tls(target_tls_ids, sumoProgram, failed, 1),
                        !.missing = missing_tls(target_tls_ids, sumoProgram, failed, 1),
                        !.actions = <<>>,
                        !.stepped = FALSE]
    /\ UNCHANGED fo

\* step(actions)
TargetsStep ==
    /\ loaded
    /\ simulation_step < TargetTicks * delta_time
    /\ \E actions \in ActionVectors(Len(target_tls_ids)) :
        /\ StepCore({actions}, FALSE)
        /\ pure' = [pure EXCEPT !.actions = actions, !.stepped = TRUE]
    /\ UNCHANGED fo

NextTargets == TargetsReset \/ TargetsStep

SpecTargets == InitTargets /\ [][NextTargets]_vars

\* C15: action-to-intersection alignment.  In control_mode 'rl', for every
\* index i whose intersection target_tls_ids[i] is initialised, the action
\* handed to that intersection in a step is element i of the action vector,
\* also when other target ids failed to initialise.
C15_ActionAlignment ==
    (control_mode = "rl" /\ pure.stepped) =>
        \A i \in 1..Len(target_tls_ids) :
            (target_tls_ids[i] \in Managed /\ i <= Len(pure.actions))
                => last[target_tls_ids[i]].action = pure.actions[i]

\* C17: dropped intersections.  A target id that the last reset reported in
\* missing_tls (unknown to the simulator, or its program query raised) is
\* absent from traffic_lights at every tick of the episode, so no step hands
\* it a phase command, and its 86-element observation block is all zeros.
C17_DroppedIntersections ==
    loaded =>
        \A i \in 1..Len(target_tls_ids) :
            target_tls_ids[i] \in IdSet(pure.missing) =>
                /\ target_tls_ids[i] \notin Keys(traffic_lights)
                /\ \A telemetry \in TelemetrySamples(sumoProgram) :
                       LET obs == get_observation(telemetry, [ok |-> TRUE, expected |-> 0])
                       IN  \A k \in 1..TlsBlock :
                               obs[TlsBlock * (i - 1) + k] = <<0, 1>>

-----------------------------------------------------------------------------
(* One episode of AddisTargetedEnvironment as its caller sees it: `pure`    *)
(* holds num_seconds, the answer of the simulator to the query of the       *)
(* expected vehicles in the last step, and the flag `done` that step        *)
(* returned.  The caller is a policy that asks every intersection to switch *)
(* or hands over no action at all, in either control mode.                  *)

\* steps are taken up to this simulation time, also after done
EpisodeSeconds == 75

\* min_warmup of step
MinWarmup == 60

NumSeconds == {40, 75}

\* the query getMinExpectedNumber: raises, or answers a count
ExpectedQueries == {[ok |-> FALSE, expected |-> 0],
                    [ok |-> TRUE, expected |-> 0],
                    [ok |-> TRUE, expected |-> 500]}

\* done of step, without the warm-up guard
step_done_no_warmup(sim_step, num_seconds, sim) ==
    LET remaining == IF sim.ok THEN sim.expected ELSE 0
        time_done == sim_step >= num_seconds
        empty_done == remaining <= 0
    IN  time_done \/ empty_done

\* (mutant) done of step with the time budget compared strictly
step_done_strict(sim_step, num_seconds, sim) ==
    LET remaining == IF sim.ok THEN sim.expected ELSE 0
        time_done == sim_step > num_seconds
        empty_done == sim_step >= MinWarmup /\ remaining <= 0
    IN  time_done \/ empty_done

\* done of step
step_done(sim_step, num_seconds, sim) ==
    LET remaining == IF sim.ok THEN sim.expected ELSE 0
        time_done == sim_step >= num_seconds
        empty_done == sim_step >= MinWarmup /\ remaining <= 0
    IN  time_done \/ empty_done

EpisodeVectors == {<<>>, <<1>>}

\* delta_time of the episodes
EpisodeDeltaTime == 15

InitEpisode ==
    /\ EnvInitOf(<<"t1">>, Networks, {"rl", "sumo_default"})
    /\ delta_time = EpisodeDeltaTime
    /\ fo = <<>>
    /\ \E n \in NumSeconds :
          pure = [fn |-> "episode", num_seconds |-> n, done |-> FALSE,
                  sim |-> [ok |-> TRUE, expected |-> 500],
                  steps |-> 0, first |-> <<>>]

EpisodeReset ==
    /\ ~loaded
    /\ ResetCore
    /\ pure' = [pure EXCEPT !.done = FALSE, !.steps = 0, !.first = <<>>]
    /\ UNCHANGED fo

\* steps counts the step calls since reset; first keeps the step at which
\* done was first returned, its clock, and whether the time budget was met
EpisodeStep ==
    /\ loaded
    /\ simulation_step < EpisodeSeconds
    /\ \E sim \in ExpectedQueries :
        /\ StepCore(EpisodeVectors, TRUE)
        /\ pure' = [pure EXCEPT
                        !.done = step_done(simulation_step', pure.num_seconds, sim),
                        !.sim = sim,
                        !.steps = @ + 1,
                        !.first =
                            IF @ = <<>> /\ step_done(simulation_step', pure.num_seconds, sim)
                            THEN <<pure.steps + 1, simulation_step',
                                   simulation_step' >= pure.num_seconds>>
                            ELSE @]
    /\ UNCHANGED fo

NextEpisode == EpisodeReset \/ EpisodeStep

SpecEpisode == InitEpisode /\ [][NextEpisode]_vars

\* C18 as stated: after a step, done is TRUE if and only if simulation_step
\* >= num_seconds, or simulation_step >= 60 and the simulator reports no
\* expected vehicles.
C18_Termination ==
    (loaded /\ simulation_step > 0) =>
        (pure.done <=>
            \/ simulation_step >= pure.num_seconds
            \/ simulation_step >= MinWarmup /\ pure.sim.ok /\ pure.sim.expected = 0)

\* C18 (amended): after a step, done is TRUE if and only if simulation_step
\* >= num_seconds, or simulation_step >= 60 and the simulator reports no
\* expected vehicles or the query of the expected vehicles raises; so an
\* empty network before the warm-up has elapsed does not end the episode
\* unless the time budget has been reached.
C18_TerminationOrFailedQuery ==
    (loaded /\ simulation_step > 0) =>
        /\ pure.done <=>
             \/ simulation_step >= pure.num_seconds
             \/ /\ simulation_step >= MinWarmup
                /\ (~pure.sim.ok \/ pure.sim.expected = 0)
        /\ (/\ pure.sim.ok /\ pure.sim.expected = 0
            /\ simulation_step < MinWarmup
            /\ simulation_step < pure.num_seconds) => ~pure.done

\* an empty network before the warm-up has elapsed and before the time
\* budget: the step did not end the episode
C18_Witness ==
    /\ loaded /\ simulation_step > 0
    /\ pure.fn = "episode"
    /\ pure.sim.ok /\ pure.sim.expected = 0
    /\ simulation_step < MinWarmup /\ simulation_step < pure.num_seconds
    /\ ~pure.done

-----------------------------------------------------------------------------
(* The reward of a step.  `pure` holds, per intersection, the fields of the *)
(* manager that _calculate_reward read when _execute_action computed the    *)
(* reward of the last step.                                                 *)

\* decision ticks of a run
RewardTicks == 3

\* the fields of the manager as they are when _execute_action calls
\* _calculate_reward
RewardView(m, prog, sp, telemetry, action, now) ==
    LET pre == PrePass(m, prog, sp, TRUE, action, telemetry, now)
    IN  [lane_last_green |-> pre.tls.lane_last_green,
         current_phase |-> pre.tls.current_phase,
         time_since_last_switch |-> pre.tls.time_since_last_switch]

NoView == [lane_last_green |-> <<>>, current_phase |-> NoPhase,
           time_since_last_switch |-> 0]

InitReward ==
    /\ EnvInit(<<"t1">>)
    /\ fo = <<>>
    /\ pure = [fn |-> "reward", seen |-> <<>>]

RewardReset ==
    /\ ~loaded
    /\ ResetCore
    /\ pure' = [pure EXCEPT !.seen = [t \in Keys(traffic_lights') |-> NoView]]
    /\ UNCHANGED fo

RewardStep ==
    /\ loaded
    /\ simulation_step < RewardTicks * delta_time
    /\ \E actions \in ActionVectors(Len(target_tls_ids)),
          telemetry \in TelemetrySamples(sumoProgram) :
        /\ StepTel({actions}, FALSE, {telemetry})
        /\ pure' = [pure EXCEPT
                        !.seen = [t \in Keys(traffic_lights) |->
                                    LET k == IndexOfKey(traffic_lights, t)
                                    IN  IF control_mode = "rl" /\ k <= Len(actions)
                                        THEN RewardView(traffic_lights[k], sumoProgram[t],
                                                        sumoPhase[t], telemetry,
                                                        actions[k], simulation_step)
                                        ELSE NoView]]
    /\ UNCHANGED fo

NextReward == RewardReset \/ RewardStep

SpecReward == InitReward /\ [][NextReward]_vars

\* C19: intra-tick ordering.  For every intersection that was handed an
\* action in the step, the per-tick update of lane_last_green and any
\* starvation override of the tick had been applied when its reward was
\* computed: the reward was computed on the lane_last_green of the end of
\* the tick and, where the tick applied an override, on the phase the
\* override switched to.
C19_RewardAfterFairnessUpdate ==
    (loaded /\ simulation_step > 0) =>
        \A t \in Managed :
            pure.seen[t] # NoView =>
                LET m == traffic_lights[IndexOfKey(traffic_lights, t)]
                IN  /\ pure.seen[t].lane_last_green = m.lane_last_green
                    /\ last[t].postKind = "emergency"
                           => pure.seen[t].current_phase = last[t].postTo

-----------------------------------------------------------------------------
(* sumo_bridge: the stdin reader thread and the simulation loop of main,    *)
(* which share cmd_queue.  `pure` holds the lines of stdin, the position of *)
(* the reader, the queue, the position of the loop, and the commands that   *)
(* handle_command was called with, in the order of the calls.  A command is *)
(* named by the index of its line in stdin.                                 *)

\* lines on stdin
MaxLines == 3

\* a line holding well-formed JSON, a line json.loads rejects, and a line
\* that is empty once stripped
Lines == {"json", "malformed", ""}

\* json.loads(line) returns
well_formed(line) == line = "json"

\* cmd_queue.get_nowait() taking the newest entry
get_nowait_newest(q) ==
    IF q = <<>> THEN [empty |-> TRUE, cmd |-> 0, rest |-> q]
    ELSE [empty |-> FALSE, cmd |-> q[Len(q)], rest |-> SubSeq(q, 1, Len(q) - 1)]

\* cmd_queue.get_nowait(): the oldest entry, or queue.Empty at once
get_nowait(q) ==
    IF q = <<>> THEN [empty |-> TRUE, cmd |-> 0, rest |-> q]
    ELSE [empty |-> FALSE, cmd |-> Head(q), rest |-> Tail(q)]

InitBridge ==
    /\ EnvUnused
    /\ fo = <<>>
    /\ \E rl \in BOOLEAN, stdin \in SeqsUpTo(Lines, MaxLines) :
          pure = [fn |-> "bridge", rl_model |-> rl, stdin |-> stdin,
                  read |-> 0, reader |-> "next", warned |-> 0,
                  cmd_queue |-> <<>>,
                  loop |-> "cycle", done |-> FALSE, emitted |-> FALSE,
                  cmd |-> 0, handled |-> <<>>]

\* stdin_reader: the next line is read, stripped and parsed
ReaderNext ==
    /\ pure.fn = "bridge" /\ pure.reader = "next" /\ pure.read < Len(pure.stdin)
    /\ LET line == pure.stdin[pure.read + 1]
       IN  pure' = [pure EXCEPT
                        !.read = @ + 1,
                        !.reader = IF line # "" /\ well_formed(line) THEN "put" ELSE "next",
                        !.warned = IF line # "" /\ ~well_formed(line) THEN @ + 1 ELSE @]
    /\ UNCHANGED <<envVars, fo>>

\* stdin_reader: q.put(cmd)
ReaderPut ==
    /\ pure.fn = "bridge" /\ pure.reader = "put"
    /\ pure' = [pure EXCEPT !.cmd_queue = Append(@, pure.read), !.reader = "next"]
    /\ UNCHANGED <<envVars, fo>>

\* stdin_reader: stdin is closed
ReaderEof ==
    /\ pure.fn = "bridge" /\ pure.reader = "next" /\ pure.read = Len(pure.stdin)
    /\ pure' = [pure EXCEPT !.reader = "closed"]
    /\ UNCHANGED <<envVars, fo>>

\* main: a decision cycle begins (model.predict and env.step, or
\* traci.simulationStep)
LoopCycle ==
    /\ pure.fn = "bridge" /\ pure.loop = "cycle"
    /\ pure' = [pure EXCEPT !.loop = "step", !.emitted = FALSE]
    /\ UNCHANGED <<envVars, fo>>

\* main: the decision cycle returns, or raises and ends the loop
LoopStep ==
    /\ pure.fn = "bridge" /\ pure.loop = "step"
    /\ \E raised \in BOOLEAN, done \in BOOLEAN :
          pure' = [pure EXCEPT !.loop = IF raised THEN "stopped" ELSE "emit",
                               !.done = pure.rl_model /\ ~raised /\ done]
    /\ UNCHANGED <<envVars, fo>>

\* main: the payload of the tick is printed
LoopEmit ==
    /\ pure.fn = "bridge" /\ pure.loop = "emit"
    /\ pure' = [pure EXCEPT !.loop = "drain", !.emitted = TRUE]
    /\ UNCHANGED <<envVars, fo>>

\* main: one get_nowait of the drain; queue.Empty ends the drain
LoopDrain ==
    /\ pure.fn = "bridge" /\ pure.loop = "drain"
    /\ \E g \in {get_nowait(pure.cmd_queue)} :
          pure' = [pure EXCEPT
                      !.cmd_queue = g.rest,
                      !.cmd = g.cmd,
                      !.loop = IF ~g.empty THEN "handle"
                               ELSE IF pure.done THEN "stopped" ELSE "cycle"]
    /\ UNCHANGED <<envVars, fo>>

\* main: handle_command(cmd), which catches what it raises
LoopHandle ==
    /\ pure.fn = "bridge" /\ pure.loop = "handle"
    /\ pure' = [pure EXCEPT !.handled = Append(@, pure.cmd), !.cmd = 0,
                            !.loop = "drain"]
    /\ UNCHANGED <<envVars, fo>>

Reader == ReaderNext \/ ReaderPut \/ ReaderEof
Loop == LoopCycle \/ LoopStep \/ LoopEmit \/ LoopDrain \/ LoopHandle

NextBridge == Reader \/ Loop

\* both threads are scheduled again and again
SpecBridge == InitBridge /\ [][NextBridge]_vars /\ WF_vars(Reader) /\ WF_vars(Loop)

\* the well-formed commands among the first n lines of stdin
RECURSIVE CommandsRead(_, _)
CommandsRead(stdin, n) ==
    IF n = 0 THEN <<>>
    ELSE CommandsRead(stdin, n - 1)
         \o (IF well_formed(stdin[n]) THEN <<n>> ELSE <<>>)

\* the commands enqueued so far, in the order of put()
Enqueued ==
    CommandsRead(pure.stdin, IF pure.reader = "put" THEN pure.read - 1 ELSE pure.read)

\* handled, then in the hands of the loop, then queued: the commands
\* enqueued, each once, in arrival order
BridgeFifo ==
    pure.handled
    \o (IF pure.loop = "handle" THEN <<pure.cmd>> ELSE <<>>)
    \o pure.cmd_queue
        = Enqueued

\* handle_command runs only in the drain after the payload of the tick
BridgeHandledInDrain ==
    [][pure'.handled # pure.handled => pure.loop = "handle" /\ pure.emitted]_vars

\* C20: operator command channel.  With the stdin reader thread and the
\* simulation loop running concurrently, every well-formed JSON line read
\* from stdin is enqueued once and, while the loop keeps running, handled
\* exactly once in arrival order; commands are handled only in the drain
\* after a tick's payload has been emitted, never inside a decision cycle;
\* and the drain does not block on an empty queue.
C20_CommandChannel ==
    /\ [](pure.fn = "bridge" => BridgeFifo)
    /\ BridgeHandledInDrain
    /\ \A i \in 1..MaxLines :
          (pure.read >= i /\ well_formed(pure.stdin[i]))
              ~> (pure.loop = "stopped" \/ i \in IdSet(pure.handled))
    /\ (pure.loop = "drain" /\ pure.cmd_queue = <<>>) ~> (pure.loop # "drain")

\* two commands read around a malformed line have both been handled, the
\* loop still running
C20_Witness ==
    /\ pure.fn = "bridge"
    /\ Len(pure.handled) >= 2
    /\ pure.warned >= 1
    /\ pure.handled = CommandsRead(pure.stdin, pure.read)
    /\ pure.loop # "stopped"

-----------------------------------------------------------------------------
(* sumo_bridge.handle_command: one operator command against one simulator   *)
(* traffic light.  `pure` holds the simulator's light, the last command,    *)
(* whether its change reached the simulator, the signal string the light    *)
(* showed when the command returned, what it printed as status, whether the *)
(* command left the light as it was and the simulation steps it forced.     *)

\* commands handled in a run
MaxCommands == 2

\* phaseIndex of a command that has none, or one that int() rejects
NoIndex == -7

\* the signal strings of the program of the light the simulator knows
BridgeProgram == <<"Gr", "yr", "rG">>
BridgeTls == "t1"

\* junction_to_tllogic of build_tls_mapping: empty, or a friendly name
DisplayMaps == {[t \in {} |-> ""], [t \in {"t1"} |-> "T-One"]}

\* junction_to_tllogic.get(junction_id, junction_id)
display_id(map, id) == IF id \in DOMAIN map THEN map[id] ELSE id

NotDict == [dict |-> FALSE, type |-> "", id |-> "", cmd |-> "",
            phaseIndex |-> NoIndex, phase |-> ""]

Commands ==
    {NotDict}
    \cup {[dict |-> TRUE, type |-> ty, id |-> id, cmd |-> c,
           phaseIndex |-> NoIndex, phase |-> ""] :
              ty \in {"tls", "other"}, id \in {"", "t1", "zz"},
              c \in {"next", "prev", "resume", "reset", "bogus"}}
    \cup {[dict |-> TRUE, type |-> "tls", id |-> id, cmd |-> "set",
           phaseIndex |-> i, phase |-> ""] :
              id \in {"t1", "zz"}, i \in {-1, 0, 1, 2, 3, NoIndex}}
    \cup {[dict |-> TRUE, type |-> "tls_state", id |-> id, cmd |-> c,
           phaseIndex |-> NoIndex, phase |-> ph] :
              id \in {"", "t1", "zz"}, c \in {"", "next"}, ph \in {"", "GG", "rr"}}

\* the simulator call that raises while a command is handled: none, the
\* check of the id, a query before the change, a call after the change
\* (setPhaseDuration, simulationStep), or the state query of the emission
Failures == {"none", "check", "before", "after", "emit"}

\* traci.trafficlight.setPhase
set_phase(light, idx) ==
    [light EXCEPT !.phase = idx, !.state = BridgeProgram[idx + 1]]

\* traci.simulationStep(): the light stays, or its program moves on
sim_steps(light) ==
    {light} \cup
    (IF light.manual THEN {}
     ELSE {[light EXCEPT !.phase = (light.phase + 1) % Len(BridgeProgram),
                         !.state = BridgeProgram[((light.phase + 1)
                                                  % Len(BridgeProgram)) + 1]]})

\* (mutant) the index of a 'set' command wrapped into the program
target_phase_wrapped(cmd, cur, num) ==
    CASE cmd.cmd = "next" -> (cur + 1) % Max2(1, num)
      [] cmd.cmd = "prev" -> (cur - 1 + Max2(1, num)) % Max2(1, num)
      [] cmd.cmd = "set" -> IF cmd.phaseIndex # NoIndex
                            THEN cmd.phaseIndex % Max2(1, num) ELSE NoPhase
      [] cmd.cmd = "resume" -> Max2(0, Min2(cur, num - 1))
      [] cmd.cmd = "reset" -> 0
      [] OTHER -> NoPhase

\* the phase index a 'tls' command asks for, NoPhase if it asks for none
target_phase(cmd, cur, num) ==
    CASE cmd.cmd = "next" -> (cur + 1) % Max2(1, num)
      [] cmd.cmd = "prev" -> (cur - 1 + Max2(1, num)) % Max2(1, num)
      [] cmd.cmd = "set" -> IF cmd.phaseIndex # NoIndex /\ 0 <= cmd.phaseIndex
                               /\ cmd.phaseIndex < Max2(1, num)
                            THEN cmd.phaseIndex ELSE NoPhase
      [] cmd.cmd = "resume" -> Max2(0, Min2(cur, num - 1))
      [] cmd.cmd = "reset" -> 0
      [] OTHER -> NoPhase

\* emit_tls_update printing the id it was called with
emit_tls_update_raw_id(map, id, light, failure) ==
    IF failure = "emit" THEN <<>>
    ELSE << [type |-> "viz", step |-> -1, id |-> id, state |-> light.state] >>

\* emit_tls_update: the payload printed, none if the state query raises
emit_tls_update(map, id, light, failure) ==
    IF failure = "emit" THEN <<>>
    ELSE << [type |-> "viz", step |-> -1, id |-> display_id(map, id),
             state |-> light.state] >>

\* handle_command(cmd): the lights the simulator may show afterwards, each
\* with the flag that the change reached the simulator, the number of
\* traci.simulationStep() calls the handling made and the status payloads
\* printed
handle_command(map, light, cmd, failure) ==
    LET quiet == {[light |-> light, applied |-> FALSE, stepped |-> 0, out |-> <<>>]}
        done(l, fl) == {[light |-> l2, applied |-> TRUE, stepped |-> 1,
                         out |-> emit_tls_update(map, cmd.id, l2, fl)] :
                            l2 \in sim_steps(l)}
    IN  IF ~cmd.dict \/ cmd.type \notin {"tls", "tls_state"} \/ cmd.id = "" THEN quiet
        ELSE IF failure = "check" \/ cmd.id # BridgeTls THEN quiet
        ELSE IF cmd.type = "tls_state"
        THEN IF cmd.phase = "" \/ failure = "before" THEN quiet
             ELSE LET l1 == [light EXCEPT !.state = cmd.phase, !.manual = TRUE]
                  IN  IF failure = "after"
                      THEN {[light |-> l1, applied |-> TRUE, stepped |-> 0, out |-> <<>>]}
                      ELSE done(l1, failure)
        ELSE LET idx == target_phase(cmd, light.phase, Len(BridgeProgram))
             IN  IF idx = NoPhase \/ failure = "before" THEN quiet
                 ELSE LET l0 == IF cmd.cmd \in {"resume", "reset"}
                                THEN [light EXCEPT !.manual = FALSE] ELSE light
                          l1 == set_phase(l0, idx)
                      IN  IF failure = "after"
                          THEN {[light |-> l1, applied |-> TRUE, stepped |-> 0, out |-> <<>>]}
                          ELSE done(l1, failure)

InitCommand ==
    /\ EnvUnused
    /\ fo = <<>>
    /\ \E map \in DisplayMaps, ph \in 0..(Len(BridgeProgram) - 1) :
          pure = [fn |-> "command", map |-> map,
                  light |-> [phase |-> ph, state |-> BridgeProgram[ph + 1],
                             manual |-> FALSE],
                  handled |-> 0, cmd |-> NotDict, failure |-> "none",
                  shown |-> "", applied |-> FALSE, out |-> <<>>,
                  kept |-> TRUE, stepped |-> 0]

\* a tick of the loop between two drains
CommandTick ==
    /\ pure.fn = "command"
    /\ \E l \in sim_steps(pure.light) : pure' = [pure EXCEPT !.light = l]
    /\ UNCHANGED <<envVars, fo>>

\* the drain hands one command to handle_command
HandleCommand ==
    /\ pure.fn = "command" /\ pure.handled < MaxCommands
    /\ \E cmd \in Commands, failure \in Failures :
        \E r \in handle_command(pure.map, pure.light, cmd, failure) :
            pure' = [pure EXCEPT !.light = r.light, !.handled = @ + 1,
                                 !.cmd = cmd, !.failure = failure,
                                 !.shown = r.light.state,
                                 !.applied = r.applied, !.out = r.out,
                                 !.kept = (r.light = pure.light),
                                 !.stepped = r.stepped]
    /\ UNCHANGED <<envVars, fo>>

NextCommand == CommandTick \/ HandleCommand

SpecCommand == InitCommand /\ [][NextCommand]_vars

\* the commands the bridge is to reject
Rejected(cmd) ==
    \/ ~cmd.dict
    \/ cmd.type \notin {"tls", "tls_state"}
    \/ cmd.id = ""
    \/ cmd.id # BridgeTls
    \/ cmd.type = "tls" /\ cmd.cmd = "set"
          /\ (cmd.phaseIndex = NoIndex \/ cmd.phaseIndex < 0
              \/ cmd.phaseIndex >= Len(BridgeProgram))
    \/ cmd.type = "tls" /\ cmd.cmd \notin {"next", "prev", "set", "resume", "reset"}

\* the one status emission of an applied command
OneStatus ==
    /\ Len(pure.out) = 1
    /\ pure.out[1].step = -1
    /\ pure.out[1].id = display_id(pure.map, pure.cmd.id)
    /\ pure.out[1].state = pure.shown

-----------------------------------------------------------------------------
(* Steps of AddisTargetedEnvironment under telemetry of which lane queries  *)
(* may raise.  `pure` holds the telemetry of the last step and what the     *)
(* step returned: per intersection the lane metrics its observation block   *)
(* was built from, and its reward.                                          *)

\* decision ticks of a run
TelemetryTicks == 1

\* a lane whose queries answer until getLastStepMeanSpeed raises
HalfFailedLane == [ok |-> FALSE, vehicles |-> 40, halting |-> 25, waiting |-> 200,
                   speed |-> 0, length |-> 0]

\* what the simulator answers for the lanes of a network at one tick
FailTelemetry(net) ==
    {f \in [{"L1", "L2", "L3"} -> {IdleLane, BusyLane, HalfFailedLane}] :
        \A l \in {"L1", "L2", "L3"} \ UNION {LanesOf(net[t]) : t \in DOMAIN net} :
            f[l] = IdleLane}

WaitingScale == 180
QueueScale == 20
FlowScale == 300
RewardSpeedScale == 30
SwitchPenaltyAge == 10

\* the sum of one metric over the lanes of a dict of lane metrics
RECURSIVE SumMetric(_, _, _)
SumMetric(lane_metrics, lanes, field) ==
    IF lanes = {} THEN 0
    ELSE LET l == CHOOSE x \in lanes : TRUE
         IN  lane_metrics[l][field] + SumMetric(lane_metrics, lanes \ {l}, field)

\* _calculate_reward, as a fraction
calculate_reward(m, lane_metrics) ==
    LET lanes == DOMAIN lane_metrics
        n == Cardinality(lanes)
        part(field, scale, weight) ==
            RMul(<<weight, 1>>,
                 RMin(RNorm(<<SumMetric(lane_metrics, lanes, field), n * scale>>),
                      <<1, 1>>))
        switch_penalty == IF m.time_since_last_switch < SwitchPenaltyAge
                          THEN <<-1, 10>> ELSE <<0, 1>>
    IN  IF lanes = {} THEN <<0, 1>>
        ELSE RAdd(RAdd(RSub(<<0, 1>>, part("waiting_time", WaitingScale, 3)),
                       RSub(<<0, 1>>, part("queue_length", QueueScale, 2))),
                  RAdd(RAdd(part("flow_rate", FlowScale, 2),
                            part("mean_speed", RewardSpeedScale, 1)),
                       switch_penalty))

\* the reward _execute_action returns for one intersection
execute_action_reward(m, prog, sp, action, telemetry, now) ==
    LET pre == PrePass(m, prog, sp, TRUE, action, telemetry, now)
        bonus == CASE pre.kind = "emergency" -> <<2, 1>>
                   [] pre.kind = "policy" -> <<1, 2>>
                   [] OTHER -> <<0, 1>>
    IN  RAdd(bonus, calculate_reward(pre.tls, get_lane_metrics(pre.tls, telemetry)))

InitTelemetry ==
    /\ EnvInit(<<"t1">>)
    /\ delta_time = EpisodeDeltaTime
    /\ fo = <<>>
    /\ pure = [fn |-> "telemetry", telemetry |-> <<>>, metrics |-> <<>>,
               reward |-> <<>>]

TelemetryReset ==
    /\ ~loaded
    /\ ResetCore
    /\ pure' = [pure EXCEPT !.telemetry = <<>>, !.metrics = <<>>, !.reward = <<>>]
    /\ UNCHANGED fo

TelemetryStep ==
    /\ loaded
    /\ simulation_step < TelemetryTicks * delta_time
    /\ \E actions \in ActionVectors(Len(target_tls_ids)), telemetry \in FailTelemetry(sumoProgram) :
        /\ StepTel({actions}, TRUE, {telemetry})
        /\ pure' = [pure EXCEPT
                        !.telemetry = telemetry,
                        !.metrics = [t \in Keys(traffic_lights) |->
                                       get_lane_metrics(
                                           traffic_lights[IndexOfKey(traffic_lights, t)],
                                           telemetry)],
                        !.reward = [t \in {x \in Keys(traffic_lights) :
                                              IndexOfKey(traffic_lights, x) <= Len(actions)} |->
                                       LET k == IndexOfKey(traffic_lights, t)
                                       IN  execute_action_reward(
                                               traffic_lights[k], sumoProgram[t],
                                               sumoPhase[t], actions[k], telemetry,
                                               simulation_step)]]
    /\ UNCHANGED fo

NextTelemetry == TelemetryReset \/ TelemetryStep

SpecTelemetry == InitTelemetry /\ [][NextTelemetry]_vars

\* the seven metrics of a lane are all 0
AllZero(lm) ==
    /\ lm.vehicle_count = 0 /\ lm.queue_length = 0 /\ lm.waiting_time = 0
    /\ lm.mean_speed = 0 /\ lm.occupancy[1] = 0 /\ lm.density[1] = 0
    /\ lm.flow_rate = 0

\* the telemetry with the failing lanes answering as idle lanes
Repaired(telemetry) ==
    [l \in DOMAIN telemetry |-> IF telemetry[l].ok THEN telemetry[l] ELSE IdleLane]

\* C22: telemetry failure is local.  After a step in which queries of some
\* lanes raised, the metrics of each such lane are all 0, the metrics of
\* every other lane of the intersection are what they are when no query
\* raises, and the step returned an observation and a reward.
C22_TelemetryFailureLocal ==
    (loaded /\ simulation_step > 0) =>
        /\ \A t \in DOMAIN pure.metrics : \A l \in DOMAIN pure.metrics[t] :
              IF pure.telemetry[l].ok
              THEN pure.metrics[t][l] = LaneMetrics(Repaired(pure.telemetry)[l])
              ELSE AllZero(pure.metrics[t][l])
        /\ \A t \in DOMAIN pure.reward :
              pure.reward[t][2] > 0 /\ RLe(<<-6, 1>>, pure.reward[t])
                                    /\ RLe(pure.reward[t], <<6, 1>>)

\* a step in which one lane of an intersection failed after some of its
\* queries had answered, next to a saturated lane, and a reward was returned
C22_Witness ==
    /\ loaded /\ simulation_step > 0 /\ pure.fn = "telemetry"
    /\ \E t \in DOMAIN pure.reward : \E l1, l2 \in DOMAIN pure.metrics[t] :
          /\ pure.telemetry[l1] = HalfFailedLane
          /\ pure.telemetry[l2] = BusyLane
          /\ pure.metrics[t][l2].queue_length = QueueCap

-----------------------------------------------------------------------------
(* The three places where a vector of the wrong length is made to fit: the  *)
(* action vector in AddisTargetedEnvironment.step, the observation in the   *)
(* bridge's adapt_observation, and the observation at the tail of           *)
(* AddisTrafficEnvironment._get_observation.  `pure` holds the input, the   *)
(* vector used, and what was printed while fitting it.                      *)

\* active intersections of the environment that step() serves
MaxActive == 2

\* the lines step() prints: its begin line only
step_log(actions, n_tls) == <<"begin">>

\* the actions step() hands out: zip(tls_ids, actions[:len(tls_ids)])
zip_actions(actions, n_tls) ==
    [i \in 1..Min2(n_tls, Len(actions)) |-> actions[i]]

\* the lines adapt_observation prints
adapt_observation_log(ob, target_dim) ==
    IF Len(ob) = target_dim THEN <<>>
    ELSE IF Len(ob) > target_dim THEN <<"slicing">>
    ELSE <<"padding">>

\* the lines the tail of _get_observation prints: none
pad_truncate_tail_log(obs, expected_dim) == <<>>

InitDims ==
    /\ EnvUnused
    /\ fo = <<>>
    /\ \/ \E ob \in SeqsUpTo(ArrayValues, MaxObsLen), D \in 1..MaxDim,
             consumer \in {"bridge", "tail"} :
             pure = [fn |-> "dims", consumer |-> consumer, input |-> ob, expected |-> D,
                     fitted |-> FALSE, used |-> <<>>, log |-> <<>>]
       \/ \E n \in 0..MaxActive :
          \E actions \in ActionVectors(n + 1) :
             pure = [fn |-> "dims", consumer |-> "step", input |-> actions, expected |-> n,
                     fitted |-> FALSE, used |-> <<>>, log |-> <<>>]

\* step(actions): the actions are cut to the intersections
DimsStep ==
    /\ pure.fn = "dims" /\ pure.consumer = "step" /\ ~pure.fitted
    /\ pure' = [pure EXCEPT !.fitted = TRUE,
                            !.used = zip_actions(pure.input, pure.expected),
                            !.log = step_log(pure.input, pure.expected)]
    /\ UNCHANGED <<envVars, fo>>

\* obs = adapt_observation(obs, expected_dim) of the bridge
DimsAdapt ==
    /\ pure.fn = "dims" /\ pure.consumer = "bridge" /\ ~pure.fitted
    /\ pure' = [pure EXCEPT !.fitted = TRUE,
                            !.used = adapt_observation(pure.input, pure.expected),
                            !.log = adapt_observation_log(pure.input, pure.expected)]
    /\ UNCHANGED <<envVars, fo>>

\* the tail of AddisTrafficEnvironment._get_observation
DimsTail ==
    /\ pure.fn = "dims" /\ pure.consumer = "tail" /\ ~pure.fitted
    /\ pure' = [pure EXCEPT !.fitted = TRUE,
                            !.used = pad_truncate_tail(pure.input, pure.expected),
                            !.log = pad_truncate_tail_log(pure.input, pure.expected)]
    /\ UNCHANGED <<envVars, fo>>

NextDims == DimsStep \/ DimsAdapt \/ DimsTail

SpecDims == InitDims /\ [][NextDims]_vars

\* C23: dimension mismatches are diagnosed.  Whenever a vector whose length
\* differs from the expected one has been made to fit (the action vector of
\* step against the number of active intersections, an observation against
\* a consumer's dimension), a diagnostic for the mismatch was printed.
C23_MismatchDiagnosed ==
    (pure.fn = "dims" /\ pure.fitted /\ Len(pure.input) # pure.expected) =>
        \E i \in DOMAIN pure.log : pure.log[i] \in {"slicing", "padding", "mismatch"}

\* C24: no cross-episode persistence.  Right after every reset(), whatever
\* happened in earlier episodes, traffic_lights holds exactly the targets
\* initialised by this reset, each in the episode-start state, and
\* simulation_step and emergency_switches_total are 0.
C24_NoCrossEpisodeState ==
    (pure.fn = "targets" /\ loaded /\ ~pure.stepped) =>
        /\ Keys(traffic_lights) = IdSet(pure.found)
        /\ \A k \in DOMAIN traffic_lights :
              LET m == traffic_lights[k]
              IN  /\ m.current_phase = 0
                  /\ m.phase_start_time = 0
                  /\ m.time_since_last_switch = 0
                  /\ m.phase_switches = 0
                  /\ m.emergency_switches = 0
                  /\ m.last_emergency_switch = InitialLastEmergencySwitch
                  /\ \A l \in DOMAIN m.lane_last_green :
                        m.lane_last_green[l] = -m.max_red_time
        /\ simulation_step = 0
        /\ emergency_switches_total = 0

-----------------------------------------------------------------------------
\* C25: valid phase index.  After any sequence of reset and step calls,
\* every intersection with a non-empty phase list has 0 <= current_phase <
\* len(phases), and every phase index that a step passed to setPhase, in
\* the pre-advance pass or in the post-advance pass, is in that range.
C25_ValidPhaseIndex ==
    \A k \in DOMAIN traffic_lights :
        LET m == traffic_lights[k]
            valid(p) == 0 <= p /\ p < Len(m.phases)
        IN  m.phases # <<>> =>
              /\ valid(m.current_phase)
              /\ last[m.tls_id].preKind # "none" => valid(last[m.tls_id].preTo)
              /\ last[m.tls_id].postKind # "none" => valid(last[m.tls_id].postTo)

\* a policy switch to the last phase of a program of three phases
C25_Witness ==
    \E k \in DOMAIN traffic_lights :
        LET m == traffic_lights[k]
        IN  /\ Len(m.phases) = 3
            /\ last[m.tls_id].preKind = "policy"
            /\ last[m.tls_id].preTo = 2

-----------------------------------------------------------------------------
(* FairnessInfoWrapper under TLSFilterWrapper, as create_addis_multiagent_env *)
(* stacks them.  `pure` holds the traffic signals of the base environment   *)
(* with their phase histograms, the selected tls_ids, and the info dicts a  *)
(* step returned.  std is kept as its square.                               *)

\* traffic signals of the base environment
SystemSignals == {"a", "b", "c"}

\* green phases of each signal
SystemGreenPhases == 2

\* the phase history of a signal: fresh, even, and all on one phase
SignalHistories ==
    {[phase_usage |-> h, step_count |-> SumValues(h, DOMAIN h),
      num_green_phases |-> SystemGreenPhases] :
        h \in {[i \in 0..(SystemGreenPhases - 1) |-> 0],
               [i \in 0..(SystemGreenPhases - 1) |-> 60],
               [i \in 0..(SystemGreenPhases - 1) |-> IF i = 0 THEN 120 ELSE 0]}}

\* the tls_ids lists a caller selects
SystemSelections ==
    {<<"a">>, <<"b">>, <<"a", "b">>, <<"b", "c">>, <<"a", "b", "c">>}

\* the sum of a dict of fractions
RECURSIVE RSum(_, _)
RSum(d, keys) ==
    IF keys = {} THEN <<0, 1>>
    ELSE LET k == CHOOSE x \in keys : TRUE
         IN  RAdd(d[k], RSum(d, keys \ {k}))

\* sum(fairness_scores) / len(fairness_scores), 1.0 for no score
mean_score(scores, over) ==
    IF over = {} THEN <<1, 1>>
    ELSE RMul(RSum(scores, over), <<1, Cardinality(over)>>)

\* np.std(fairness_scores) squared, 0.0 for fewer than two scores
var_score(scores, over) ==
    IF Cardinality(over) <= 1 THEN <<0, 1>>
    ELSE LET mu == mean_score(scores, over)
             sq == [k \in over |-> RMul(RSub(scores[k], mu), RSub(scores[k], mu))]
         IN  RMul(RSum(sq, over), <<1, Cardinality(over)>>)

\* _add_fairness_info: the entries put into one info dict
add_fairness_info(traffic_signals) ==
    LET scores == [ts \in DOMAIN traffic_signals |->
                      info_fairness_score(traffic_signals[ts].phase_usage,
                                          traffic_signals[ts].step_count,
                                          traffic_signals[ts].num_green_phases)]
    IN  [scores |-> scores,
         system_fairness_score |-> mean_score(scores, DOMAIN scores),
         system_fairness_std2 |-> var_score(scores, DOMAIN scores)]

InitSystem ==
    /\ EnvUnused
    /\ fo = <<>>
    /\ \E signals \in [SystemSignals -> SignalHistories],
          selected \in SystemSelections :
          pure = [fn |-> "system", traffic_signals |-> signals, selected |-> selected,
                  infos |-> <<>>]

\* step() of the stacked wrappers: FairnessInfoWrapper adds the fairness
\* entries to the info dict of every agent, TLSFilterWrapper keeps the
\* dicts of the selected agents
SystemStep ==
    /\ pure.fn = "system" /\ pure.infos = <<>>
    /\ LET infos == [agent \in SystemSignals |-> add_fairness_info(pure.traffic_signals)]
       IN  pure' = [pure EXCEPT !.infos = FilterDict(infos, pure.selected)]
    /\ UNCHANGED <<envVars, fo>>

NextSystem == SystemStep

SpecSystem == InitSystem /\ [][NextSystem]_vars

\* C26: the system-wide fairness aggregates cover active agents only.  In
\* every info dict a step returns, system_fairness_score is the mean and
\* system_fairness_std the standard deviation of the fairness scores of the
\* selected agents alone.
C26_SystemFairnessOverActive ==
    (pure.fn = "system" /\ pure.infos # <<>>) =>
        \A agent \in DOMAIN pure.infos :
            LET info == pure.infos[agent]
            IN  /\ info.system_fairness_score = mean_score(info.scores, IdSet(pure.selected))
                /\ info.system_fairness_std2 = var_score(info.scores, IdSet(pure.selected))

-----------------------------------------------------------------------------
(* The switch counters.  The steps of this specification include those in  *)
(* which traci.trafficlight.setPhase raises for some intersections.         *)

CountersStep ==
    /\ loaded
    /\ simulation_step < MaxTicks * delta_time
    /\ StepRaising(ActionVectors(Len(target_tls_ids)), FALSE,
                   TelemetrySamples(sumoProgram), SUBSET (DOMAIN sumoProgram))
    /\ UNCHANGED <<fo, pure>>

NextCounters == Reset \/ CountersStep

SpecCounters == Init /\ [][NextCounters]_vars

\* the emergency overrides applied in the episode, over all intersections
RECURSIVE AppliedEmergencies(_)
AppliedEmergencies(ids) ==
    IF ids = {} THEN 0
    ELSE LET t == CHOOSE x \in ids : TRUE
         IN  hist[t].emergencies + AppliedEmergencies(ids \ {t})

\* C27: switch counters.  Within an episode, phase_switches of every
\* intersection equals the number of phase switches (policy or emergency)
\* applied to it, and emergency_switches_total equals the number of
\* emergency overrides applied to any intersection, in either pass.
C27_SwitchCounters ==
    loaded =>
        /\ \A k \in DOMAIN traffic_lights :
                traffic_lights[k].phase_switches = hist[traffic_lights[k].tls_id].applied
        /\ emergency_switches_total = AppliedEmergencies(DOMAIN hist)

\* C28: every recorded emergency is applied.  When needs_emergency_switch
\* records an emergency for an intersection in a step (it returns a phase
\* and starts the cooldown), the intersection is switched to that phase by
\* an emergency override of the same step.
C28_RecordedEmergencyApplied ==
    \A t \in Managed :
        /\ last[t].preFlag =>
                \/ last[t].preKind = "emergency" /\ last[t].preTo = last[t].preFlagPhase
                \/ last[t].postKind = "emergency" /\ last[t].postTo = last[t].preFlagPhase
        /\ last[t].postFlag => last[t].postKind = "emergency"

-----------------------------------------------------------------------------
(* The target of a policy switch.  `pure` keeps the managers, the phases    *)
(* the simulator showed, the lane telemetry and the action vector the last  *)
(* step() started from.                                                     *)

\* a crossing whose only green phase is not the first phase of its program
ProgCrossing == [links |-> <<"L1">>, phases |-> << <<"r">>, <<"G">>, <<"y">> >>]

SelectNetworks ==
    { [t \in {"t1"} |-> ProgAB],
      [t \in {"t1"} |-> ProgThree],
      [t \in {"t1"} |-> ProgCrossing] }

InitSelect ==
    /\ EnvInitOf(<<"t1">>, SelectNetworks, ControlModes)
    /\ fo = <<>>
    /\ pure = [fn |-> "select", telemetry |-> <<>>, before |-> <<>>, phase |-> <<>>,
               actions |-> <<>>]

SelectStep ==
    /\ loaded
    /\ simulation_step < MaxTicks * delta_time
    /\ \E telemetry \in TelemetrySamples(sumoProgram),
          actions \in ActionVectors(Len(target_tls_ids)) :
          /\ StepTel({actions}, FALSE, {telemetry})
          /\ pure' = [fn |-> "select", telemetry |-> telemetry, before |-> traffic_lights,
                      phase |-> sumoPhase, actions |-> actions]
    /\ UNCHANGED fo

NextSelect == Reset \/ SelectStep

SpecSelect == InitSelect /\ [][NextSelect]_vars

\* the green phases other than the current one that score highest, the
\* lowest index among equals
BestOtherGreen(m, links, telemetry, now) ==
    LET lane_metrics == get_lane_metrics(m, telemetry)
        others == IdSet(m.green_phases) \ {m.current_phase}
        score == [p \in others |-> evaluate_phase_score(m, links, p, lane_metrics, now, 1)]
    IN  {p \in others : \A q \in others : score[p] > score[q]
                                          \/ (score[p] = score[q] /\ p <= q)}

\* C29: switch target selection.  A policy-requested switch that is applied
\* goes to a member of green_phases other than the current phase that has
\* the maximum score among these, the lowest index among equals; when the
\* current phase is the only green phase no policy switch is applied.
C29_SwitchTarget ==
    pure.fn = "select" =>
        \A k \in DOMAIN pure.before :
            LET m == pure.before[k]
                t == m.tls_id
            IN  last[t].preKind = "policy" =>
                    last[t].preTo \in BestOtherGreen(m, sumoProgram[t].links,
                                                     pure.telemetry, last[t].preTime)

\* C30: no premature starvation override.  An emergency is recorded or
\* applied only when a lane has been non-green for more than
\* 0.8 * max_red_time seconds of the current episode, hence only at an
\* episode time beyond 0.8 * max_red_time, and never at the first decision
\* after reset.
C30_NoPrematureOverride ==
    \A t \in Managed :
        /\ (last[t].preFlag \/ last[t].preKind = "emergency") =>
                last[t].preTime * StarvationDen > MaxRedTime * StarvationNum
        /\ (last[t].postFlag \/ last[t].postKind = "emergency") =>
                last[t].postTime * StarvationDen > MaxRedTime * StarvationNum

\* C31: emergency cooldown spacing.  For every intersection, two consecutive
\* emergencies recorded in one episode, in the pre-advance or the
\* post-advance pass of the same or of different ticks, are at least
\* emergency_cooldown seconds of simulated time apart.
C31_CooldownSpacing ==
    \A k \in DOMAIN traffic_lights :
        LET m == traffic_lights[k]
            records == hist[m.tls_id].records
        IN  Len(records) = 2 => records[2] - records[1] >= m.emergency_cooldown

\* an intersection has recorded a second emergency in the episode
C31_Witness ==
    \E t \in DOMAIN hist : Len(hist[t].records) = 2

\* C32: the two phase clocks agree.  After reset and after every step, for
\* every intersection, time_since_last_switch equals
\* simulation_step - phase_start_time, and both are >= 0.
C32_PhaseClocksAgree ==
    loaded =>
        \A k \in DOMAIN traffic_lights :
            LET m == traffic_lights[k]
            IN  /\ m.time_since_last_switch = simulation_step - m.phase_start_time
                /\ m.time_since_last_switch >= 0
                /\ simulation_step - m.phase_start_time >= 0

\* a step has ended after a switch of an earlier step: both clocks are
\* ahead of zero and behind the episode clock
C32_Witness ==
    /\ loaded
    /\ \E k \in DOMAIN traffic_lights :
          /\ traffic_lights[k].phase_start_time > 0
          /\ traffic_lights[k].time_since_last_switch > 0
          /\ traffic_lights[k].phase_switches > 0

-----------------------------------------------------------------------------
(* sumo_bridge in RL mode: the loop resets the environment once, then calls *)
(* env.step and drains the operator commands after every step.  `pure`      *)
(* counts the simulator steps executed since reset's warm-up.               *)

\* the network of the bridge: the light BridgeTls running BridgeProgram
RlNetworks ==
    { [t \in {BridgeTls} |->
          [links |-> <<"L1", "L2">>,
           phases |-> << <<"G", "r">>, <<"y", "r">>, <<"r", "G">> >>]] }

InitRl ==
    /\ EnvInitOf(<<BridgeTls>>, RlNetworks, {"rl"})
    /\ fo = <<>>
    /\ pure = [fn |-> "rl", simulator_steps |-> 0, manual |-> FALSE, handled |-> 0]

\* obs, info = env.reset()
RlReset ==
    /\ pure.fn = "rl" /\ ~loaded
    /\ ResetCore
    /\ pure' = [pure EXCEPT !.simulator_steps = 0]
    /\ UNCHANGED fo

\* env.step(actions_vec) of one loop iteration: delta_time simulator steps
RlStep ==
    /\ pure.fn = "rl" /\ loaded
    /\ simulation_step < MaxTicks * delta_time
    /\ StepCore([1..Len(target_tls_ids) -> {0, 1}], FALSE)
    /\ pure' = [pure EXCEPT !.simulator_steps = @ + delta_time]
    /\ UNCHANGED fo

\* the drain after a step hands one command to handle_command
RlHandle ==
    /\ pure.fn = "rl" /\ loaded /\ simulation_step > 0
    /\ pure.handled < MaxCommands
    /\ \E cmd \in Commands, failure \in Failures :
        LET ph == sumoPhase[BridgeTls]
            light == [phase |-> ph, state |-> BridgeProgram[ph + 1],
                      manual |-> pure.manual]
        IN  \E r \in handle_command(<<>>, light, cmd, failure) :
              /\ sumoPhase' = [sumoPhase EXCEPT ![BridgeTls] = r.light.phase]
              /\ pure' = [pure EXCEPT !.simulator_steps = @ + r.stepped,
                                      !.manual = r.light.manual,
                                      !.handled = @ + 1]
    /\ UNCHANGED <<sumoProgram, sumoStart, laneOrder, loaded, delta_time, control_mode,
                   target_tls_ids, simulation_step, traffic_lights,
                   emergency_switches_total, last, hist, fo>>

NextRl == RlReset \/ RlStep \/ RlHandle

SpecRl == InitRl /\ [][NextRl]_vars

\* C33: the environment clock tracks the simulator.  In the RL mode of the
\* bridge, after reset and after every step and every handled command,
\* simulation_step equals the number of simulator steps executed since the
\* end of reset's warm-up.
C33_ClockTracksSimulator ==
    (pure.fn = "rl" /\ loaded) => simulation_step = pure.simulator_steps

-----------------------------------------------------------------------------
(* The phase score on a junction where one lane has two controlled links.   *)

\* lane L1 holds two links (two signal indices), lane L2 one
ProgShared == [links  |-> <<"L1", "L1", "L2">>,
               phases |-> << <<"G", "G", "r">>, <<"r", "r", "G">>, <<"G", "r", "r">> >>]

ScoreNetworks ==
    { [t \in {"t1"} |-> ProgShared],
      [t \in {"t1"} |-> ProgAB] }

InitScore ==
    /\ EnvInitOf(<<"t1">>, ScoreNetworks, ControlModes)
    /\ fo = <<>>
    /\ pure = [fn |-> "select", telemetry |-> <<>>, before |-> <<>>, phase |-> <<>>,
               actions |-> <<>>]

SpecScore == InitScore /\ [][NextSelect]_vars

\* demand score plus fairness bonus of one lane, ScoreScale times the float
LaneScore(m, mt, lane, now) ==
    mt.queue_length * 2 * ScoreScale
    + mt.waiting_time * (ScoreScale \div 100)
    + mt.vehicle_count * (ScoreScale \div 2)
    + Min2((now - m.lane_last_green[lane]) * (ScoreScale \div 60),
           FairnessBonusCap * ScoreScale)

RECURSIVE SumLaneScores(_, _, _, _)
SumLaneScores(m, lane_metrics, lanes, now) ==
    IF lanes = {} THEN 0
    ELSE LET l == CHOOSE x \in lanes : TRUE
         IN  LaneScore(m, lane_metrics[l], l, now)
             + SumLaneScores(m, lane_metrics, lanes \ {l}, now)

\* C34: the phase score counts each lane once.  The score
\* _get_next_optimal_phase computes for a phase is the sum, over the
\* distinct controlled lanes the phase serves green, of the lane's demand
\* score plus its fairness bonus, however many links of the lane are green.
C34_LaneCountedOnce ==
    pure.fn = "select" =>
        \A k \in DOMAIN pure.before :
            LET m == pure.before[k]
                t == m.tls_id
                links == sumoProgram[t].links
                now == last[t].preTime
                lane_metrics == get_lane_metrics(m, pure.telemetry)
                served(p) == {links[i] : i \in {j \in DOMAIN links :
                                  /\ j <= Len(m.phases[p + 1])
                                  /\ GreenChar(m.phases[p + 1][j])}}
                             \cap DOMAIN lane_metrics
            IN  (last[t].action = 1 /\ ~last[t].preFlag /\ can_switch_phase(m, now)) =>
                    \A p \in IdSet(m.green_phases) \ {m.current_phase} :
                        evaluate_phase_score(m, links, p, lane_metrics, now, 1)
                            = SumLaneScores(m, lane_metrics, served(p), now)

-----------------------------------------------------------------------------
(* The emergency check on a junction with a lane that no phase serves.      *)

InitUnserved ==
    /\ EnvInitOf(<<"t1">>, {[t \in {"t1"} |-> ProgUnserved]}, ControlModes)
    /\ fo = <<>>
    /\ pure = [fn |-> "select", telemetry |-> <<>>, before |-> <<>>, phase |-> <<>>,
               actions |-> <<>>]

SpecUnserved == InitUnserved /\ [][NextSelect]_vars

\* the pre-advance pass of the last step called needs_emergency_switch for
\* manager k after the cooldown, and the lane the scan selected is served
\* by no green phase
InfeasibleOverride(k) ==
    LET m == pure.before[k]
        prog == sumoProgram[m.tls_id]
        now == last[m.tls_id].preTime
        green == get_current_green_lanes(prog, pure.phase[m.tls_id])
        lane == ScanStarved(m, green, now, 1, 0, "")
    IN  /\ k <= Len(pure.actions)
        /\ now - m.last_emergency_switch >= m.emergency_cooldown
        /\ lane # ""
        /\ find_best_phase_for_lane(m, prog.links, lane) = NoPhase

\* C35: an infeasible override is a no-op.  When the starved lane that
\* needs_emergency_switch selects is served by no green phase, the call
\* returns (False, None) and leaves the manager as it was: the cooldown is
\* not started, emergency_switches stays, and the pass issues no emergency
\* switch.
C35_InfeasibleOverrideNoOp ==
    pure.fn = "select" =>
        \A k \in DOMAIN pure.before :
            LET m == pure.before[k]
                t == m.tls_id
            IN  InfeasibleOverride(k) =>
                  /\ needs_emergency_switch(m, sumoProgram[t], pure.phase[t],
                                            last[t].preTime)
                        = [flag |-> FALSE, phase |-> NoPhase, tls |-> m]
                  /\ ~last[t].preFlag
                  /\ last[t].preKind # "emergency"
                  /\ ~last[t].postFlag =>
                        /\ traffic_lights[k].last_emergency_switch = m.last_emergency_switch
                        /\ traffic_lights[k].emergency_switches = m.emergency_switches

\* the pass met an infeasible override although another starved lane could
\* have been served
C35_Witness ==
    /\ pure.fn = "select"
    /\ \E k \in DOMAIN pure.before :
          /\ InfeasibleOverride(k)
          /\ traffic_lights[k].emergency_switches = 0

\* C36: every episode terminates.  simulation_step grows by exactly
\* delta_time per step call; done is returned no later than the
\* ceil(num_seconds / delta_time)-th step after reset; and when done is
\* first returned with the time budget used up,
\* num_seconds <= simulation_step < num_seconds + delta_time.
C36_EpisodeTerminates ==
    (pure.fn = "episode" /\ loaded) =>
        LET budget == (pure.num_seconds + delta_time - 1) \div delta_time
        IN  /\ simulation_step = pure.steps * delta_time
            /\ pure.steps >= budget => (pure.done /\ pure.first # <<>>)
            /\ pure.first # <<>> => pure.first[1] <= budget
            /\ (pure.first # <<>> /\ pure.first[3]) =>
                    /\ pure.num_seconds <= pure.first[2]
                    /\ pure.first[2] < pure.num_seconds + delta_time

\* an episode whose budget is no multiple of delta_time ended on the time
\* budget, in a network that still expected vehicles
C36_Witness ==
    /\ pure.fn = "episode" /\ loaded
    /\ pure.done /\ pure.first # <<>> /\ pure.first[3]
    /\ pure.sim.ok /\ pure.sim.expected > 0
    /\ pure.first[2] > pure.num_seconds

\* C37: the switch penalty is unreachable.  Whenever _calculate_reward is
\* evaluated for an intersection, its time_since_last_switch is not below
\* the age under which the reward applies the switch penalty.
C37_SwitchPenaltyUnreachable ==
    (pure.fn = "reward" /\ loaded) =>
        \A t \in DOMAIN pure.seen :
            pure.seen[t] # NoView =>
                pure.seen[t].time_since_last_switch >= SwitchPenaltyAge

\* a command naming an intersection the simulator does not know
UnknownId(cmd) ==
    cmd.dict /\ cmd.type \in {"tls", "tls_state"} /\ cmd.id \notin {"", BridgeTls}

\* a 'set' command for a known intersection with an index outside
\* [0, numPhases)
SetOutOfRange(cmd) ==
    /\ cmd.dict /\ cmd.type = "tls" /\ cmd.id = BridgeTls /\ cmd.cmd = "set"
    /\ cmd.phaseIndex # NoIndex
    /\ (cmd.phaseIndex < 0 \/ cmd.phaseIndex >= Len(BridgeProgram))

\* C38: rejected operator commands change nothing.  A command naming an
\* unknown intersection, or a 'set' whose phaseIndex lies outside
\* [0, numPhases), issues no change to the simulator's light and forces no
\* simulation step: light and simulated time are as before the command.
C38_RejectedChangesNothing ==
    (pure.fn = "command" /\ pure.handled > 0
        /\ (UnknownId(pure.cmd) \/ SetOutOfRange(pure.cmd))) =>
            /\ pure.kept
            /\ pure.stepped = 0
            /\ ~pure.applied

\* a 'set' with the index one past the last phase was handled, after a
\* command that had been applied
C38_Witness ==
    /\ pure.fn = "command" /\ pure.handled = MaxCommands
    /\ SetOutOfRange(pure.cmd) /\ pure.cmd.phaseIndex = Len(BridgeProgram)
    /\ pure.kept /\ pure.stepped = 0
    /\ pure.light.manual

-----------------------------------------------------------------------------
(* The reward step() returns and episode_reward, in control_mode            *)
(* 'sumo_default'.  `pure` holds the reward of the last step, the           *)
(* episode_reward, and the action vector and telemetry of the last step.    *)

\* (mutant) the intersections step() computes a reward for, whatever the mode
rewarded_any_mode(mode, tl, actions) ==
    {k \in DOMAIN tl : k <= Len(actions)}

\* the intersections step() computes a reward for: the loop over
\* zip(tls_ids, actions[:len(tls_ids)]), entered in control_mode 'rl' only
rewarded(mode, tl, actions) ==
    IF mode = "rl" THEN {k \in DOMAIN tl : k <= Len(actions)} ELSE {}

\* total_reward = np.mean(rewards) if rewards else 0
total_reward(rewards) ==
    IF DOMAIN rewards = {} THEN <<0, 1>>
    ELSE RMul(RSum(rewards, DOMAIN rewards), <<1, Cardinality(DOMAIN rewards)>>)

InitPass ==
    /\ EnvInitOf(<<"t1">>, Networks, {"sumo_default"})
    /\ fo = <<>>
    /\ pure = [fn |-> "pass", reward |-> <<0, 1>>, episode_reward |-> <<0, 1>>,
               actions |-> <<>>, telemetry |-> <<>>]

PassReset ==
    /\ pure.fn = "pass"
    /\ ResetCore
    /\ pure' = [pure EXCEPT !.reward = <<0, 1>>, !.episode_reward = <<0, 1>>,
                            !.actions = <<>>, !.telemetry = <<>>]
    /\ UNCHANGED fo

PassStep ==
    /\ pure.fn = "pass" /\ loaded
    /\ simulation_step < MaxTicks * delta_time
    /\ \E actions \in ActionVectors(Len(target_tls_ids)),
          telemetry \in TelemetrySamples(sumoProgram) :
        /\ StepTel({actions}, FALSE, {telemetry})
        /\ LET rewards == [k \in rewarded(control_mode, traffic_lights, actions) |->
                              LET t == traffic_lights[k].tls_id
                              IN  execute_action_reward(traffic_lights[k], sumoProgram[t],
                                                        sumoPhase[t], actions[k],
                                                        telemetry, simulation_step)]
           IN  pure' = [pure EXCEPT
                            !.reward = total_reward(rewards),
                            !.episode_reward = RAdd(@, total_reward(rewards)),
                            !.actions = actions,
                            !.telemetry = telemetry]
    /\ UNCHANGED fo

NextPass == PassReset \/ PassStep

SpecPass == InitPass /\ [][NextPass]_vars

\* C39: pass-through reward.  In control_mode 'sumo_default' every step
\* returns reward 0 and episode_reward stays 0, whatever the traffic and
\* the action vector.
C39_PassThroughReward ==
    (pure.fn = "pass" /\ control_mode = "sumo_default") =>
        /\ pure.reward = <<0, 1>>
        /\ pure.episode_reward = <<0, 1>>

\* the second step of an episode, handed a Switch action under a saturated
\* lane, returned reward 0
C39_Witness ==
    /\ pure.fn = "pass" /\ control_mode = "sumo_default" /\ loaded
    /\ simulation_step >= 2 * delta_time
    /\ pure.actions = <<1>>
    /\ \E l \in DOMAIN pure.telemetry : pure.telemetry[l] = BusyLane
    /\ pure.reward = <<0, 1>>

-----------------------------------------------------------------------------
(* The stagnation counter of FairnessObservationFunction.  `pure` observes  *)
(* the calls: the active phase of the last call and the length of the run   *)
(* of calls with that phase.                                                *)

InitStagnation ==
    /\ EnvUnused
    /\ pure = [fn |-> "stagnation", phase |-> NoPhase, run |-> 0]
    /\ \E n \in SignalPhases : \E num_phases \in {n, DefaultPhases} :
            fo = fairness_init(num_phases, n)

StagnationCall ==
    /\ pure.fn = "stagnation" /\ fo.calls < MaxCalls
    /\ \E current_phase \in 0..MaxPhaseIndex :
          /\ fo' = fairness_call(fo, current_phase)
          /\ pure' = [pure EXCEPT !.phase = current_phase,
                                  !.run = IF pure.phase = current_phase THEN @ + 1 ELSE 1]
    /\ UNCHANGED envVars

StagnationReset ==
    /\ pure.fn = "stagnation" /\ fo.resets < MaxResets
    /\ fo' = fairness_reset(fo)
    /\ pure' = [pure EXCEPT !.phase = NoPhase, !.run = 0]
    /\ UNCHANGED envVars

NextStagnation == StagnationCall \/ StagnationReset

SpecStagnation == InitStagnation /\ [][NextStagnation]_vars

\* C40: stagnation counter consistency.  After n >= 1 observation calls
\* since reset, same_phase_count is the length of the current run of calls
\* with the same active phase, minus 1 (so 0 right after a call whose phase
\* differs from the previous one's), it is at most step_count - 1, and
\* phase_usage of the current phase is at least same_phase_count + 1.
C40_StagnationCounter ==
    (pure.fn = "stagnation" /\ fo.calls >= 1) =>
        /\ fo.same_phase_count = pure.run - 1
        /\ fo.same_phase_count <= fo.step_count - 1
        /\ DictGet(fo.phase_usage, pure.phase) >= fo.same_phase_count + 1

\* after a reset, a run of two calls followed a call with another phase
C40_Witness ==
    /\ pure.fn = "stagnation" /\ fo.resets = 1
    /\ fo.calls >= 3 /\ pure.run = 2
    /\ fo.same_phase_count = 1

====
